---------------------------- MODULE Spec2Model ----------------------------
(***************************************************************************)
(* Model of the voice-agent server's turn pipeline.                        *)
(*                                                                         *)
(* Part I  : InteractionQueueNode / TextInputNode / StateUpdateNode on one *)
(*           session's datastore (QueueSpec, QueueFairSpec).               *)
(* Part II : AssemblyAISTTWebSocketNode, the transcription node the graph  *)
(*           is built with (SttTurnSpec, SttSpec).                         *)
(*                                                                         *)
(* An interactionId "<base>#<n>" is the pair <<base, n>>; <<base, 0>> is   *)
(* an id without a "#<n>" suffix (a uuid).                                 *)
(***************************************************************************)
EXTENDS Integers, Sequences, FiniteSets, TLC

(***************************************************************************)
(* Bounds of the model.                                                    *)
(***************************************************************************)
MaxTurns == 3
MaxTexts == 1
MaxIter == 2
MaxChunks == 2
MaxConns == 2
MaxTicks == 2
MaxPush == 3
MaxEnds == 2
MaxMsgs == 3
MaxSessionEnds == 2
MaxResults == 3

\* program constants
INACTIVITY_TIMEOUT_MS == 60000
INPUT_SAMPLE_RATE == 16000
DEADLINE_EXCEEDED == 4

\* environment inputs
TickMs == INACTIVITY_TIMEOUT_MS \div 2
ExpiresInSec == 15
\* a chunk as the client sends it: number of samples, whether the voice-activity
\* scorer hears speech in it, and whether ws.send accepts it (FALSE: send throws)
ChunkKinds ==
  {[len |-> 0, speech |-> FALSE, sendOk |-> TRUE],
   [len |-> 1600, speech |-> FALSE, sendOk |-> TRUE]}
Transcripts == {"", "hi"}

\* client sockets opened with the session's id, one MessageHandler each
MaxSockets == 2
Handlers == 1..MaxSockets

\* text messages received by the session, over all its sockets, in arrival order
MaxTextMsgs == 3
TextMessages == 1..MaxTextMsgs

\* results a text graph execution delivers on its output stream
MaxOutputs == 1

\* src/constants.ts, and the sample counts AudioHandler derives from them
FRAME_PER_BUFFER == 1024
PRE_ROLL_MS == 500
MIN_SPEECH_DURATION_MS == 200
PAUSE_DURATION_THRESHOLD_MS == 300
PRE_ROLL_MAX_SAMPLES == (INPUT_SAMPLE_RATE * PRE_ROLL_MS) \div 1000
MIN_SPEECH_DURATION_SAMPLES == (MIN_SPEECH_DURATION_MS * INPUT_SAMPLE_RATE) \div 1000

\* audio messages handled by AudioHandler, and the numbers of samples they carry:
\* half a frame, 100 ms, and 600 ms
MaxHandled == 4
MessageLengths == {FRAME_PER_BUFFER \div 2, INPUT_SAMPLE_RATE \div 10, 6 * (INPUT_SAMPLE_RATE \div 10)}

\* messages of the 100 ms scenario
MaxScenario == 8

\* AudioStreamSlicerNode: pauseDurationMs as the constructor sets it without a
\* configured value, the chunks it reads (250 ms and 500 ms of samples, scored by
\* the VAD as speech or not) and how many it reads
DefaultPauseDurationMs == 1000
MaxSliced == 5
SlicerChunkLengths == {INPUT_SAMPLE_RATE \div 4, INPUT_SAMPLE_RATE \div 2}

\* the sessions loaded on one server, and the turns detected in each
SessionIds == {"A", "B"}
MaxSessionTurns == 1

\* calls of process whose interactionId is recorded, audio sessions and text
\* messages of the session
MaxCalls == 4
MaxExecutions == 2
MaxTextIds == 1

VARIABLES
  dataStore,      \* context.getDatastore() of the audio graph execution: key -> value
  interactionId,  \* connection.state.interactionId
  messages,       \* connection.state.messages, as <<role, id>> pairs
  unloaded,       \* connection.unloaded
  stage,          \* position of each admitted turn in the generation pipeline
  loopPending,    \* StateUpdateNode output waiting on the loop edge to the queue node
  results,        \* history: ids of the non-empty results of admit, in order
  textStage,      \* position of the text graph execution
  textCount       \* number of text interactions created so far

VARIABLES
  now,            \* Date.now(), in ms
  sessions,       \* this.sessions.get(sessionId): index of the session object, 0 = no entry
  sessObj,        \* the session objects created by initializeWebSocket, by index
  objCount,       \* number of session objects created so far
  streamQueue,    \* chunks pushed into the session's audio stream and not yet taken
  streamEnded,    \* AudioStreamManager.ended
  nextPending,    \* iterations whose audioStream.next() is pending, in call order
  pushed,         \* number of chunks pushed so far
  iter,           \* local state of each call of process (one per iteration)
  started,        \* number of calls of process so far
  sttResults,     \* history: the DataStreamWithMetadata metadata returned by process, in order
  forwarded,      \* history: chunks sent to the provider, with the connection used
  fate,           \* history: what became of each chunk taken from the stream
  idleCloses,     \* history: connections closed by closeConnectionDueToInactivity
  clientOut       \* messages the node sent to the client during the last step

queueVars == <<dataStore, interactionId, messages, unloaded, stage,
               loopPending, results, textStage, textCount>>

sttVars == <<now, sessions, sessObj, objCount, streamQueue, streamEnded, nextPending,
             pushed, iter, started, sttResults, forwarded, fate,
             idleCloses, clientOut>>

VARIABLES
  queue,            \* AudioStreamManager.queue
  waitingResolvers, \* AudioStreamManager.waitingResolvers
  ended,            \* AudioStreamManager.ended
  genPc,            \* where the body of createStream is suspended
  promiseResult,    \* what the promise awaited in createStream was resolved with
  received,         \* history: the chunks createStream has yielded, in order
  pushCalls,        \* number of calls of pushChunk so far; call k carries chunk k
  endCalls,         \* number of calls of end so far
  accepted,         \* history: chunks pushed before the first end(), in order
  handed,           \* history: chunks given to a waiting resolver by pushChunk
  endSaw            \* history: what the first end() found (consumer waiting, queue length, yielded so far)

asmVars == <<queue, waitingResolvers, ended, genPc, promiseResult, received,
             pushCalls, endCalls, accepted, handed, endSaw>>

VARIABLES
  wireCount,                  \* number of audio messages received on the client socket
  audioStreamManager,         \* connection.audioStreamManager: "none", "open" or "ended"
  currentAudioGraphExecution, \* connection.currentAudioGraphExecution is set and running
  awaitingGraph,              \* audio messages whose handler awaits getGraphForSTTService
  pushOrder,                  \* history: audio messages in the order of their pushChunk call
  sessionEnds,                \* number of audioSessionEnd messages received
  resultLoop,                 \* the for-await over outputStream: "none", "reading", "stopped"
  currentGraphInteractionId,  \* local of executeGraphWithAudioStream; NoId = undefined
  resultCount,                \* number of graph results read so far
  lastResult,                 \* the graph result read last
  lastLearnedId,              \* history: id of the last user State result of this execution
  errorsSent,                 \* history: the ERROR events sent to the client, in order
  endHandlers                 \* per audioSessionEnd message, its handler: "returned" at once, "awaiting" the execution, or "awaited" it

audioVars == <<wireCount, audioStreamManager, currentAudioGraphExecution, awaitingGraph,
               pushOrder, sessionEnds, resultLoop, currentGraphInteractionId,
               resultCount, lastResult, lastLearnedId, errorsSent,
              endHandlers>>

VARIABLES
  processingQueue,  \* MessageHandler.processingQueue of each client socket: ids of the queued tasks
  isProcessing,     \* MessageHandler.isProcessing of each client socket
  currentTask,      \* the task processQueue of each socket is awaiting, 0 = none
  dispatch,         \* where the executeGraph call of each text message stands
  textMsgs,         \* number of text messages received so far; message k gets uuid <<"v4", k>>
  sent              \* history: the events each handler sent to its client, in order

textVars == <<processingQueue, isProcessing, currentTask, dispatch, textMsgs, sent>>

VARIABLES
  destroyed         \* AssemblyAISTTWebSocketNode.destroy has run

nodeVars == <<destroyed>>

VARIABLES
  stateId,          \* connection.state.interactionId, as a sequence of characters
  loopIteration,    \* metadata.iteration of the input of the next call of process, 0 = none
  executions,       \* number of audio graph executions (audio sessions) started so far
  textIds,          \* number of text messages handled so far
  assigned          \* history: the iteration and nextInteractionId each call of process computed

idVars == <<stateId, loopIteration, executions, textIds, assigned>>

VARIABLES
  audioBuffer,      \* AudioHandler.audioBuffer, as runs of samples
  preRollBuffer,    \* AudioHandler.preRollBuffer, as runs of samples
  speechBuffer,     \* AudioHandler.speechBuffer, as runs of samples
  isCapturingSpeech,                 \* AudioHandler.isCapturingSpeech
  pauseDuration,                     \* AudioHandler.pauseDuration, in ms
  currentAudioInteractionRegistered, \* AudioHandler.currentAudioInteractionRegistered
  handled,          \* number of audio messages processAudioChunk has handled
  frameLog,         \* history: length and VAD outcome of every frame processed
  idleSeen,         \* history: the silent frames processed while idle since the pre-roll was last silence
  onsets,           \* history: pre-roll, idle history, frame and segment of every speech onset
  capturedSpeech    \* history: the buffers handed to onSpeechCaptured

handlerVars == <<audioBuffer, preRollBuffer, speechBuffer, isCapturingSpeech, pauseDuration,
                 currentAudioInteractionRegistered, handled, frameLog, idleSeen, onsets,
                 capturedSpeech>>

VARIABLES
  slicer,   \* AudioStreamSlicerNode.process: position and locals of the running iteration
  sliced,   \* history: what every iteration of AudioStreamSlicerNode returned
  chunksRead   \* chunks AudioStreamSlicerNode has taken from the stream

slicerVars == <<slicer, sliced, chunksRead>>

VARIABLES
  notified,   \* results of the transcription node that the graph has passed along the notifier edge
  speechEvents   \* history: the USER_SPEECH_COMPLETE events sent to the client, in order

notifierVars == <<notified, speechEvents>>

VARIABLES
  admitLog   \* history: per id, the text of its first admit call, then the first other text

admitVars == <<admitLog>>

VARIABLES
  appConnections,   \* InworldApp.connections: sessionId -> the connection object, NoConnection if none
  nodeSessions,   \* AssemblyAISTTWebSocketNode.sessions: sessionId -> the entry, NoEntry if none
  stores   \* the datastore of the audio graph execution of each session

isolationVars == <<appConnections, nodeSessions, stores>>

vars == <<queueVars, sttVars, asmVars, audioVars, textVars, nodeVars, idVars, handlerVars, slicerVars, notifierVars, admitVars, isolationVars>>

notIsolationVars == <<queueVars, sttVars, asmVars, audioVars, textVars, nodeVars, idVars, handlerVars, slicerVars, notifierVars, admitVars>>

notAdmitVars == <<queueVars, sttVars, asmVars, audioVars, textVars, nodeVars, idVars, handlerVars, slicerVars, notifierVars, isolationVars>>

notNotifierVars == <<queueVars, sttVars, asmVars, audioVars, textVars, nodeVars, idVars, handlerVars, slicerVars, admitVars, isolationVars>>

notSlicerVars == <<queueVars, sttVars, asmVars, audioVars, textVars, nodeVars, idVars, handlerVars, notifierVars, admitVars, isolationVars>>

\* what the steps of one component leave alone
notQueueVars == <<sttVars, asmVars, audioVars, textVars, nodeVars, idVars, handlerVars, slicerVars, notifierVars, admitVars, isolationVars>>
notSttVars == <<queueVars, asmVars, audioVars, textVars, nodeVars, idVars, handlerVars, slicerVars, notifierVars, admitVars, isolationVars>>
notAsmVars == <<queueVars, sttVars, audioVars, textVars, nodeVars, idVars, handlerVars, slicerVars, notifierVars, admitVars, isolationVars>>
notAudioVars == <<queueVars, sttVars, asmVars, textVars, nodeVars, idVars, handlerVars, slicerVars, notifierVars, admitVars, isolationVars>>
notIdVars == <<queueVars, sttVars, asmVars, audioVars, textVars, nodeVars, handlerVars, slicerVars, notifierVars, admitVars, isolationVars>>
notHandlerVars == <<queueVars, sttVars, asmVars, audioVars, textVars, nodeVars, idVars, slicerVars, notifierVars, admitVars, isolationVars>>
notTextVars == <<queueVars, sttVars, asmVars, audioVars, nodeVars, idVars, handlerVars, slicerVars, notifierVars, admitVars, isolationVars>>

(***************************************************************************)
(* Identifiers and inputs.                                                 *)
(***************************************************************************)
AudioBase == "u"
AudioIds == {<<AudioBase, n>> : n \in 1..MaxTurns}
TextBases == <<"t1", "t2", "t3">>
TextIdOf(k) == <<TextBases[k], 0>>
SystemMessageId == <<AudioBase, 0>>
UndefinedId == <<"undefined", 0>>
NoId == <<"", 0>>
\* transcripts a detected turn can carry; two alternatives for the first turn,
\* so that a redundant admit with a different text is among the inputs
Texts(id) == IF id[2] = 1 THEN {"a", "b"} ELSE {"a"}

QUEUED_PREFIX == "q"
RUNNING_PREFIX == "r"
COMPLETED_PREFIX == "c"

EmptyResult == [text |-> "", interactionId |-> NoId]

(***************************************************************************)
(* Datastore primitives as the nodes use them.                             *)
(***************************************************************************)
DataStoreHas(ds, key) == key \in DOMAIN ds

\* insert-if-absent: an existing key keeps its value
DataStoreAdd(ds, key, value) ==
  IF key \in DOMAIN ds THEN ds
  ELSE [k \in (DOMAIN ds) \cup {key} |-> IF k = key THEN value ELSE ds[k]]

KeysWithPrefix(ds, prefix) == {k \in DOMAIN ds : k[1] = prefix}

\* getIteration of the sort comparator: number after '#', 0 when there is none
GetIteration(id) == id[2]

RECURSIVE SortByIteration(_)
SortByIteration(ids) ==
  IF ids = {} THEN <<>>
  ELSE LET m == CHOOSE x \in ids : \A y \in ids : GetIteration(x) <= GetIteration(y)
       IN <<m>> \o SortByIteration(ids \ {m})

QueuedIds(ds) == SortByIteration({k[2] : k \in KeysWithPrefix(ds, QUEUED_PREFIX)})
CompletedCount(ds) == Cardinality(KeysWithPrefix(ds, COMPLETED_PREFIX))
RunningCount(ds) == Cardinality(KeysWithPrefix(ds, RUNNING_PREFIX))

NoInteractionRunningAlways(runningCount, completedCount) == TRUE

\* "No interaction is currently running"
NoInteractionRunning(runningCount, completedCount) == runningCount = completedCount

\* queuedIds[completedCount] (0-based); undefined past the end
NextId(queuedIds, completedCount) ==
  IF completedCount < Len(queuedIds) THEN queuedIds[completedCount + 1]
  ELSE UndefinedId

RunningKeyFreeAlways(ds, nextId) == TRUE

\* !(dataStore.has(runningKey)): the claim on nextId can be taken
RunningKeyFree(ds, nextId) == ~DataStoreHas(ds, <<RUNNING_PREFIX, nextId>>)

\* a registration that stores the text of every call
RegisterOverwriting(ds, info) ==
  [k \in (DOMAIN ds) \cup {<<QUEUED_PREFIX, info.interactionId>>} |->
     IF k = <<QUEUED_PREFIX, info.interactionId>> THEN info.text ELSE ds[k]]

\* registration of the interaction (first part of process)
Register(ds, info) ==
  IF ~DataStoreHas(ds, <<QUEUED_PREFIX, info.interactionId>>)
  THEN DataStoreAdd(ds, <<QUEUED_PREFIX, info.interactionId>>, info.text)
  ELSE ds

\* the datastore after InteractionQueueNode.process(info)
AdmitStore(ds, info) ==
  LET ds1 == Register(ds, info)
      queuedIds == QueuedIds(ds1)
      completedCount == CompletedCount(ds1)
      runningCount == RunningCount(ds1)
      nextId == NextId(queuedIds, completedCount)
  IN IF Len(queuedIds) = 0 THEN ds1
     ELSE IF Len(queuedIds) = completedCount THEN ds1
     ELSE IF NoInteractionRunning(runningCount, completedCount)
          THEN IF RunningKeyFree(ds1, nextId)
               THEN DataStoreAdd(ds1, <<RUNNING_PREFIX, nextId>>, "")
               ELSE ds1
          ELSE ds1

\* the TextInput returned by InteractionQueueNode.process(info)
AdmitResult(ds, info) ==
  LET ds1 == Register(ds, info)
      queuedIds == QueuedIds(ds1)
      completedCount == CompletedCount(ds1)
      runningCount == RunningCount(ds1)
      nextId == NextId(queuedIds, completedCount)
      queuedText == IF DataStoreHas(ds1, <<QUEUED_PREFIX, nextId>>)
                    THEN ds1[<<QUEUED_PREFIX, nextId>>] ELSE ""
  IN IF Len(queuedIds) = 0 THEN EmptyResult
     ELSE IF Len(queuedIds) = completedCount THEN EmptyResult
     ELSE IF NoInteractionRunning(runningCount, completedCount)
          THEN IF ~RunningKeyFree(ds1, nextId) THEN EmptyResult
               ELSE IF queuedText = "" THEN EmptyResult
               ELSE [text |-> queuedText, interactionId |-> nextId]
          ELSE EmptyResult

\* condition of the edge interactionQueueNode -> textInputNode
EdgeToTextInput(result) == result.text # ""

(***************************************************************************)
(* Part I: actions.                                                        *)
(***************************************************************************)
QueueIdle ==
  /\ dataStore = <<>>
  /\ interactionId = SystemMessageId
  /\ messages = <<>>
  /\ unloaded = FALSE
  /\ stage = [id \in AudioIds |-> "none"]
  /\ loopPending = FALSE
  /\ results = <<>>
  /\ textStage = "idle"
  /\ textCount = 0

\* a call of process that has not started
InitIter ==
  [pc |-> "idle", sess |-> 0, transcriptText |-> "", turnDetected |-> FALSE,
   shouldStopProcessing |-> FALSE, isStreamExhausted |-> FALSE, audioChunkCount |-> 0,
   totalAudioSamples |-> 0, endpointingLatency |-> 0, returned |-> FALSE,
   chunkLen |-> 0, chunkSpeech |-> FALSE, chunkId |-> 0, ignored |-> FALSE]

\* a slot of sessObj that initializeWebSocket has not filled yet
NoSession ==
  [ws |-> "NONE", wsReady |-> FALSE, promise |-> "pending", sessionExpiresAt |-> 0,
   timer |-> -1, lastActivityTime |-> 0, shouldStopProcessing |-> FALSE, listeners |-> {},
   lastSend |-> -1]

SttIdle ==
  /\ now = 0
  /\ sessions = 0
  /\ sessObj = [c \in 1..MaxConns |-> NoSession]
  /\ objCount = 0
  /\ streamQueue = <<>>
  /\ streamEnded = FALSE
  /\ nextPending = <<>>
  /\ pushed = 0
  /\ iter = [i \in 1..MaxIter |-> InitIter]
  /\ started = 0
  /\ sttResults = <<>>
  /\ forwarded = <<>>
  /\ fate = [k \in 1..MaxChunks |-> "none"]
  /\ idleCloses = {}
  /\ clientOut = {}

\* the promise awaited in createStream is not resolved
Pending == [done |-> FALSE, value |-> 0]

\* a new AudioStreamManager whose createStream generator has not been advanced yet
AsmIdle ==
  /\ queue = <<>>
  /\ waitingResolvers = <<>>
  /\ ended = FALSE
  /\ genPc = "suspended"
  /\ promiseResult = Pending
  /\ received = <<>>
  /\ pushCalls = 0
  /\ endCalls = 0
  /\ accepted = <<>>
  /\ handed = {}
  /\ endSaw = [waiting |-> FALSE, queued |-> 0, got |-> 0]

\* no audio message has been handled on the session's socket
AudioIdle ==
  /\ wireCount = 0
  /\ audioStreamManager = "none"
  /\ currentAudioGraphExecution = FALSE
  /\ awaitingGraph = <<>>
  /\ pushOrder = <<>>
  /\ sessionEnds = 0
  /\ resultLoop = "none"
  /\ currentGraphInteractionId = NoId
  /\ resultCount = 0
  /\ lastResult = [kind |-> "none"]
  /\ lastLearnedId = NoId
  /\ errorsSent = <<>>
  /\ endHandlers = <<>>

\* a MessageHandler as constructed for each client socket: nothing queued or sent
TextIdle ==
  /\ processingQueue = [h \in Handlers |-> <<>>]
  /\ isProcessing = [h \in Handlers |-> FALSE]
  /\ currentTask = [h \in Handlers |-> 0]
  /\ dispatch = [k \in TextMessages |-> "none"]
  /\ textMsgs = 0
  /\ sent = [h \in Handlers |-> <<>>]

\* the locals of AudioStreamSlicerNode.process at its start
SlicerLocals ==
  [speechDetected |-> FALSE, endpointingLatency |-> 0, accumulatedAudio |-> <<>>,
   isStreamExhausted |-> FALSE, seen |-> <<>>]

\* no call of AudioStreamSlicerNode.process yet
SlicerIdle ==
  /\ slicer = [pc |-> "idle"] @@ SlicerLocals
  /\ sliced = <<>>
  /\ chunksRead = 0

\* no result of the transcription node yet, nothing sent
NotifierIdle ==
  /\ notified = 0
  /\ speechEvents = <<>>

\* a run of n zero samples
Silence(n) == <<[msg |-> 0, from |-> 0, len |-> n]>>

\* initializePreRollWithSilence with an empty array instead
InitializePreRollEmpty == <<>>

\* initializePreRollWithSilence: new Array(PRE_ROLL_MAX_SAMPLES).fill(0)
InitializePreRollWithSilence == Silence(PRE_ROLL_MAX_SAMPLES)

\* AudioHandler as constructed: initializePreRollWithSilence, everything else empty
HandlerIdle ==
  /\ audioBuffer = <<>>
  /\ preRollBuffer = InitializePreRollWithSilence
  /\ speechBuffer = <<>>
  /\ isCapturingSpeech = FALSE
  /\ pauseDuration = 0
  /\ currentAudioInteractionRegistered = FALSE
  /\ handled = 0
  /\ frameLog = <<>>
  /\ idleSeen = <<>>
  /\ onsets = <<>>
  /\ capturedSpeech = <<>>

\* connection.state.interactionId is the uuid of the system message; no audio
\* graph execution has called process yet
IdIdle ==
  /\ stateId = <<"s">>
  /\ loopIteration = 0
  /\ executions = 0
  /\ textIds = 0
  /\ assigned = <<>>

\* this.connections[sessionId] is undefined
NoConnection ==
  [loaded |-> FALSE, interactionId |-> NoId, unloaded |-> FALSE, ws |-> FALSE,
   audioStreamManager |-> "none", currentAudioGraphExecution |-> FALSE]

\* this.sessions.get(sessionId) is undefined
NoEntry == [present |-> FALSE, wsReady |-> FALSE, shouldStopProcessing |-> FALSE]

\* the server before any /load: no connection, no provider session, no execution
NoSessions ==
  /\ appConnections = [s \in SessionIds |-> NoConnection]
  /\ nodeSessions = [s \in SessionIds |-> NoEntry]
  /\ stores = [s \in SessionIds |-> <<>>]

\* no turn has been admitted
AdmitIdle == admitLog = [id \in AudioIds |-> <<>>]

\* the state after InworldApp.load, before any message of the session
Init ==
  /\ QueueIdle /\ SttIdle /\ AsmIdle /\ AudioIdle /\ TextIdle /\ destroyed = FALSE
  /\ IdIdle /\ HandlerIdle /\ SlicerIdle /\ NotifierIdle /\ AdmitIdle /\ NoSessions

\* InteractionQueueNode.process, whole handler, and the edge to TextInputNode
AdmitStep(info) ==
  LET res == AdmitResult(dataStore, info)
  IN /\ dataStore' = AdmitStore(dataStore, info)
     /\ results' = IF res.text # "" THEN Append(results, res.interactionId) ELSE results
     /\ stage' = IF EdgeToTextInput(res) /\ res.interactionId \in AudioIds
                 THEN [stage EXCEPT ![res.interactionId] = "dispatched"]
                 ELSE stage

\* admit called for a detected turn (TranscriptExtractorNode -> InteractionQueueNode)
AdmitTurn(id, text) ==
  /\ AdmitStep([interactionId |-> id, text |-> text])
  /\ UNCHANGED <<interactionId, messages, unloaded, loopPending,
                 textStage, textCount>>
  /\ UNCHANGED notQueueVars

\* the same call, with the text of the first call for an id and the first other
\* text of a later call recorded in admitLog
AdmitTurnLogged(id, text) ==
  /\ AdmitStep([interactionId |-> id, text |-> text])
  /\ admitLog' = IF admitLog[id] = <<>> \/ (Len(admitLog[id]) = 1 /\ admitLog[id][1] # text)
                 THEN [admitLog EXCEPT ![id] = Append(@, text)]
                 ELSE admitLog
  /\ UNCHANGED <<interactionId, messages, unloaded, loopPending,
                 textStage, textCount>>
  /\ UNCHANGED <<sttVars, asmVars, audioVars, textVars, nodeVars, idVars,
                 handlerVars, slicerVars, notifierVars, isolationVars>>

\* admit called through the loop edge StateUpdateNode -> InteractionQueueNode,
\* with the interactionInfo of a turn that was detected earlier
AdmitLoop(id) ==
  /\ loopPending
  /\ DataStoreHas(dataStore, <<QUEUED_PREFIX, id>>)
  /\ AdmitStep([interactionId |-> id, text |-> dataStore[<<QUEUED_PREFIX, id>>]])
  /\ loopPending' = FALSE
  /\ UNCHANGED <<interactionId, messages, unloaded, textStage, textCount>>
  /\ UNCHANGED notQueueVars

\* TextInputNode.process of the audio graph for the admitted turn
TextInputNodeProcess(id) ==
  /\ stage[id] = "dispatched"
  /\ ~unloaded
  /\ interactionId' = id
  /\ messages' = Append(messages, <<"user", id>>)
  /\ stage' = [stage EXCEPT ![id] = "generating"]
  /\ UNCHANGED <<dataStore, unloaded, loopPending, results,
                 textStage, textCount>>
  /\ UNCHANGED notQueueVars

\* StateUpdateNode.process of the audio graph once the LLM output is aggregated
StateUpdateNodeProcess(id) ==
  /\ stage[id] = "generating"
  /\ ~unloaded
  /\ messages' = Append(messages, <<"assistant", interactionId>>)
  /\ dataStore' = DataStoreAdd(dataStore, <<COMPLETED_PREFIX, interactionId>>, "")
  /\ stage' = [stage EXCEPT ![id] = "done"]
  /\ loopPending' = TRUE
  /\ UNCHANGED <<interactionId, unloaded, results, textStage, textCount>>
  /\ UNCHANGED notQueueVars

\* either node throws "Session unloaded" before changing anything
NodeThrowsUnloaded(id) ==
  /\ unloaded
  /\ stage[id] \in {"dispatched", "generating"}
  /\ stage' = [stage EXCEPT ![id] = "failed"]
  /\ UNCHANGED <<dataStore, interactionId, messages, unloaded,
                 loopPending, results, textStage, textCount>>
  /\ UNCHANGED notQueueVars

\* InworldApp.unload
Unload ==
  /\ ~unloaded
  /\ unloaded' = TRUE
  /\ UNCHANGED <<dataStore, interactionId, messages, stage,
                 loopPending, results, textStage, textCount>>
  /\ UNCHANGED notQueueVars

\* TextInputNode.process of the text graph for a text message with a fresh id
TextGraphTextInput ==
  /\ textStage = "idle"
  /\ textCount < MaxTexts
  /\ ~unloaded
  /\ textCount' = textCount + 1
  /\ interactionId' = TextIdOf(textCount + 1)
  /\ messages' = Append(messages, <<"user", TextIdOf(textCount + 1)>>)
  /\ textStage' = "generating"
  /\ UNCHANGED <<dataStore, unloaded, stage, loopPending,
                 results>>
  /\ UNCHANGED notQueueVars

\* StateUpdateNode.process of the text graph; its completion key goes to the
\* text execution's own datastore, which nothing reads afterwards
TextGraphStateUpdate ==
  /\ textStage = "generating"
  /\ ~unloaded
  /\ messages' = Append(messages, <<"assistant", interactionId>>)
  /\ textStage' = "idle"
  /\ UNCHANGED <<dataStore, interactionId, unloaded, stage,
                 loopPending, results, textCount>>
  /\ UNCHANGED notQueueVars

QueueNext ==
  \/ \E id \in AudioIds : \E text \in Texts(id) : AdmitTurn(id, text)
  \/ \E id \in AudioIds : AdmitLoop(id)
  \/ \E id \in AudioIds : TextInputNodeProcess(id)
  \/ \E id \in AudioIds : StateUpdateNodeProcess(id)
  \/ \E id \in AudioIds : NodeThrowsUnloaded(id)
  \/ Unload
  \/ TextGraphTextInput
  \/ TextGraphStateUpdate

QueueSpec == Init /\ [][QueueNext]_vars

\* the graph runtime runs a node whose input is ready, and follows the loop edge
QueueFairSpec ==
  /\ QueueSpec
  /\ WF_vars(\E id \in AudioIds : TextInputNodeProcess(id))
  /\ WF_vars(\E id \in AudioIds : StateUpdateNodeProcess(id))
  /\ WF_vars(\E id \in AudioIds : AdmitLoop(id))

Spec == QueueSpec

(***************************************************************************)
(* Part I: properties.                                                     *)
(***************************************************************************)
\* turns admitted whose completion has not been marked
InFlight == {id \in AudioIds : stage[id] \in {"dispatched", "generating", "failed"}}
Dispatched(ds) == {k[2] : k \in KeysWithPrefix(ds, RUNNING_PREFIX)}
Waiting(ds) == {k[2] : k \in KeysWithPrefix(ds, QUEUED_PREFIX)} \ Dispatched(ds)
AdmitInputs == {[interactionId |-> id, text |-> t] : id \in AudioIds, t \in {"a", "b"}}

\* C1: at most one admitted turn is in flight: between a non-empty result of
\* admit and the next completion mark no other turn is admitted.
C1_AtMostOneInFlight == Cardinality(InFlight) <= 1

\* C1 witness: the second admitted turn is in flight while a third one waits.
C1_Witness ==
  /\ Len(results) = 2
  /\ Cardinality(InFlight) = 1
  /\ Waiting(dataStore) # {}

\* C2: the non-empty results of admit come out in strictly increasing
\* iteration order, whatever the arrival order.
C2_IncreasingOrder ==
  \A i, j \in 1..Len(results) :
    i < j => GetIteration(results[i]) < GetIteration(results[j])

\* C3: an id is returned by admit at most once: once its running key exists,
\* no admit call returns it again, neither while it runs (then the call made
\* for it returns empty) nor after its completion was marked once or twice.
C3_ReturnedAtMostOnce ==
  /\ \A i, j \in 1..Len(results) : i < j => results[i] # results[j]
  /\ \A id \in Dispatched(dataStore) :
       LET once == DataStoreAdd(dataStore, <<COMPLETED_PREFIX, id>>, "")
           twice == DataStoreAdd(once, <<COMPLETED_PREFIX, id>>, "")
       IN /\ \A info \in AdmitInputs :
               /\ AdmitResult(dataStore, info).interactionId # id
               /\ AdmitResult(once, info).interactionId # id
               /\ AdmitResult(twice, info).interactionId # id
          /\ id \in InFlight =>
               \A t \in {"a", "b"} :
                 AdmitResult(dataStore, [interactionId |-> id, text |-> t]) = EmptyResult

\* C3 witness: one turn has run and completed, the next one is running and a
\* further one waits, so that admit has something left that it could return.
C3_Witness ==
  /\ \E id \in Dispatched(dataStore) : <<COMPLETED_PREFIX, id>> \in DOMAIN dataStore
  /\ InFlight # {}
  /\ Waiting(dataStore) # {}

\* C4: with every dispatched turn completed and admit called after each
\* completion, every queued turn is eventually returned by admit.
C4_EveryQueuedTurnReturned ==
  ([]~unloaded) =>
    \A id \in AudioIds :
      (<<QUEUED_PREFIX, id>> \in DOMAIN dataStore)
        ~> (\E i \in 1..Len(results) : results[i] = id)

\* C5: queue entries move forward only: a running key exists only for a
\* queued id, and a completion key only for an id that has a running key.
C5_ForwardOnly ==
  \A k \in DOMAIN dataStore :
    /\ k[1] = RUNNING_PREFIX => <<QUEUED_PREFIX, k[2]>> \in DOMAIN dataStore
    /\ k[1] = COMPLETED_PREFIX => <<RUNNING_PREFIX, k[2]>> \in DOMAIN dataStore


\* the queue node with every call for a detected turn recorded
AdmitNext ==
  \/ \E id \in AudioIds : \E text \in Texts(id) : AdmitTurnLogged(id, text)
  \/ \E id \in AudioIds : AdmitLoop(id)
  \/ \E id \in AudioIds : TextInputNodeProcess(id)
  \/ \E id \in AudioIds : StateUpdateNodeProcess(id)
  \/ \E id \in AudioIds : NodeThrowsUnloaded(id)
  \/ Unload

AdmitSpec == Init /\ [][AdmitNext]_vars

\* C36: the first admit for an interactionId stores its text under the queued
\* key; a later admit for the same id, whatever its text, leaves the stored text
\* and the set of queued ids as they are: the store holds, for exactly the ids
\* admitted so far, the text of the first admit call
C36_FirstAdmitStoresText ==
  /\ \A id \in AudioIds :
       IF admitLog[id] = <<>>
       THEN ~DataStoreHas(dataStore, <<QUEUED_PREFIX, id>>)
       ELSE /\ DataStoreHas(dataStore, <<QUEUED_PREFIX, id>>)
            /\ dataStore[<<QUEUED_PREFIX, id>>] = Head(admitLog[id])
  /\ KeysWithPrefix(dataStore, QUEUED_PREFIX) =
       {<<QUEUED_PREFIX, id>> : id \in {i \in AudioIds : admitLog[i] # <<>>}}

\* the first turn was admitted with one text and later with the other, a second
\* turn was admitted too, and the first turn has completed
C36_Witness ==
  /\ admitLog[<<AudioBase, 1>>] = <<"a", "b">>
  /\ admitLog[<<AudioBase, 2>>] # <<>>
  /\ DataStoreHas(dataStore, <<COMPLETED_PREFIX, <<AudioBase, 1>>>>)

(***************************************************************************)
(* Part II: AssemblyAISTTWebSocketNode.                                    *)
(*                                                                         *)
(* One step of the model is one turn of the event loop: everything the     *)
(* code does between two suspension points (a pending audioStream.next(),  *)
(* the await of detectSpeech, the await of the connection promise) is one  *)
(* action, promise continuations included.                                 *)
(***************************************************************************)
Iterations == 1..MaxIter
Conns == 1..MaxConns

\* interactionId of an iteration: `${baseId}#${iteration}`
NextInteractionId(i) == <<AudioBase, i>>

RECURSIVE AscendingSeq(_)
AscendingSeq(S) ==
  IF S = {} THEN <<>>
  ELSE LET m == CHOOSE x \in S : \A y \in S : x <= y
       IN <<m>> \o AscendingSeq(S \ {m})

\* isExpired of ensureConnection; sessionExpiresAt is in seconds
IsExpired(o, t) ==
  /\ o.sessionExpiresAt > 0
  /\ (t \div 1000) >= o.sessionExpiresAt

\* ensureConnection: the session entry cannot be reused
NeedsNewConnection(sid, objs, t) ==
  IF sid = 0 THEN TRUE
  ELSE ~(/\ objs[sid].ws # "NONE"
         /\ objs[sid].wsReady
         /\ objs[sid].ws = "OPEN"
         /\ ~IsExpired(objs[sid], t))

\* the session object initializeWebSocket creates
NewSession(t) ==
  [ws |-> "CONNECTING", wsReady |-> FALSE, promise |-> "pending",
   sessionExpiresAt |-> 0, timer |-> -1, lastActivityTime |-> t,
   shouldStopProcessing |-> FALSE, listeners |-> {}, lastSend |-> -1]

\* resetInactivityTimer applied to the session object o
ResetInactivityTimer(o, t) ==
  [o EXCEPT !.lastActivityTime = t, !.timer = t + INACTIVITY_TIMEOUT_MS]

RacePendingAlways(p) == TRUE

\* Promise.race of process has not settled yet: process has not returned
RacePending(p) == ~p.returned

HandlerStoppedNever(p) == FALSE

\* "Ignore turn events if we've already decided to stop"
HandlerStopped(p) == p.shouldStopProcessing

\* metadata of the DataStreamWithMetadata that process returns normally
ResultOf(i, p) ==
  [iteration |-> i,
   interactionId |-> NextInteractionId(i),
   transcript |-> p.transcriptText,
   turn_detected |-> p.turnDetected,
   audio_chunk_count |-> p.audioChunkCount,
   total_audio_samples |-> p.totalAudioSamples,
   stream_exhausted |-> p.isStreamExhausted,
   interaction_complete |-> (p.turnDetected /\ p.transcriptText # ""),
   error_occurred |-> FALSE,
   endpointing_latency_ms |-> p.endpointingLatency]

\* a catch block that returns what the normal path returns
ErrorResultAsNormal(i, p) == ResultOf(i, p)

\* metadata returned from the catch block of process
ErrorResultOf(i, p) ==
  [iteration |-> i,
   interactionId |-> NextInteractionId(i),
   transcript |-> "",
   turn_detected |-> FALSE,
   audio_chunk_count |-> p.audioChunkCount,
   total_audio_samples |-> p.totalAudioSamples,
   stream_exhausted |-> p.isStreamExhausted,
   interaction_complete |-> FALSE,
   error_occurred |-> TRUE,
   endpointing_latency_ms |-> p.endpointingLatency]

HandlerApplyAnyEvent(p, transcript, isFinal) ==
  IF HandlerStopped(p) THEN [p EXCEPT !.ignored = TRUE]
  ELSE IF transcript = "" THEN p
  ELSE [p EXCEPT !.transcriptText = transcript,
                 !.turnDetected = TRUE,
                 !.shouldStopProcessing = TRUE]

\* the turn handler of one iteration applied to a Turn message
HandlerApply(p, transcript, isFinal) ==
  IF HandlerStopped(p) THEN [p EXCEPT !.ignored = TRUE]
  ELSE IF transcript = "" \/ ~isFinal THEN p
  ELSE [p EXCEPT !.transcriptText = transcript,
                 !.turnDetected = TRUE,
                 !.shouldStopProcessing = TRUE]

HandlerSendsNoCancel(i, p, transcript, isFinal) ==
  IF HandlerStopped(p) \/ transcript = "" \/ isFinal THEN {}
  ELSE {[type |-> "TEXT", interactionId |-> NextInteractionId(i), final |-> FALSE]}

\* what the turn handler of iteration i sends to the client for a Turn message:
\* sendCancellation, and sendPartialTranscript for a non-final event
HandlerSends(i, p, transcript, isFinal) ==
  IF HandlerStopped(p) \/ transcript = "" THEN {}
  ELSE {[type |-> "CANCEL_RESPONSE", interactionId |-> NextInteractionId(i)]} \cup
       (IF isFinal THEN {}
        ELSE {[type |-> "TEXT", interactionId |-> NextInteractionId(i), final |-> FALSE]})

\* the handler accepts the message as the final turn of its iteration
HandlerAccepts(p, transcript, isFinal) ==
  ~HandlerStopped(p) /\ transcript # "" /\ isFinal

ChunkDurationMsZero(len) == 0

\* chunkDurationMs
ChunkDurationMs(len) == (len * 1000) \div INPUT_SAMPLE_RATE

\* the call of process for iteration i receives control after the connection
\* promise resolved: session.shouldStopProcessing = false, resetInactivityTimer,
\* the handler is attached and the audio loop runs up to its first next()
ResumeObjs(objs, sid, c, i, t) ==
  LET o1 == [objs EXCEPT ![c].shouldStopProcessing = FALSE]
      o2 == IF sid = 0 THEN o1 ELSE [o1 EXCEPT ![sid] = ResetInactivityTimer(o1[sid], t)]
  IN [o2 EXCEPT ![c].listeners = o2[c].listeners \cup {i}]

LastResultOf(i) ==
  LET S == {k \in 1..Len(sttResults) : sttResults[k].iteration = i}
  IN sttResults[CHOOSE k \in S : \A m \in S : k <= m]

\* MessageHandler.processAudioChunk -> AudioStreamManager.pushChunk
PushChunk(kind) ==
  /\ pushed < MaxChunks
  /\ pushed' = pushed + 1
  /\ streamQueue' = IF streamEnded THEN streamQueue
                    ELSE Append(streamQueue, [id |-> pushed + 1, data |-> kind])
  /\ UNCHANGED <<now, sessions, sessObj, objCount, streamEnded, nextPending, iter,
                 started, sttResults, forwarded, fate, idleCloses>>
  /\ clientOut' = {}
  /\ UNCHANGED notSttVars

\* audioSessionEnd -> AudioStreamManager.end
EndStream ==
  /\ pushed > 0
  /\ ~streamEnded
  /\ streamEnded' = TRUE
  /\ UNCHANGED <<now, sessions, sessObj, objCount, streamQueue, nextPending, pushed, iter,
                 started, sttResults, forwarded, fate, idleCloses>>
  /\ clientOut' = {}
  /\ UNCHANGED notSttVars

\* the graph calls process: first call, or loop edge stream_exhausted !== true
ProcessCalled ==
  /\ started < MaxIter
  /\ \/ started = 0 /\ pushed > 0
     \/ /\ started > 0
        /\ iter[started].returned
        /\ ~LastResultOf(started).stream_exhausted

MayStartProcessUnchecked == ProcessCalled

\* process is called and gets past its connection?.unloaded check
MayStartProcess == ProcessCalled /\ ~unloaded

\* process is called for an unloaded session: it throws "Session unloaded" before
\* ensureConnection and before the audio loop, and the graph execution fails
ProcessThrowsUnloaded ==
  /\ ProcessCalled
  /\ ~MayStartProcess
  /\ started' = started + 1
  /\ iter' = [iter EXCEPT ![started + 1].pc = "thrown"]
  /\ clientOut' = {}
  /\ UNCHANGED <<now, sessions, sessObj, objCount, streamQueue, streamEnded, nextPending,
                 pushed, sttResults, forwarded, fate, idleCloses>>
  /\ UNCHANGED notSttVars

\* process, with a session entry that ensureConnection can reuse
StartProcessReuse ==
  LET i == started + 1 IN
  /\ MayStartProcess
  /\ ~NeedsNewConnection(sessions, sessObj, now)
  /\ started' = i
  /\ sessObj' = ResumeObjs(sessObj, sessions, sessions, i, now)
  /\ iter' = [iter EXCEPT ![i].pc = "next", ![i].sess = sessions]
  /\ nextPending' = Append(nextPending, i)
  /\ UNCHANGED <<now, sessions, objCount, streamQueue, streamEnded, pushed, sttResults,
                 forwarded, fate, idleCloses>>
  /\ clientOut' = {}
  /\ UNCHANGED notSttVars

\* process, when ensureConnection closes the old socket and calls initializeWebSocket
StartProcessConnect ==
  LET i == started + 1
      c == objCount + 1 IN
  /\ MayStartProcess
  /\ NeedsNewConnection(sessions, sessObj, now)
  /\ objCount < MaxConns
  /\ started' = i
  /\ objCount' = c
  /\ sessions' = c
  /\ sessObj' = [k \in Conns |->
                   IF k = c THEN NewSession(now)
                   ELSE IF k = sessions /\ sessObj[k].ws = "OPEN"
                        THEN [sessObj[k] EXCEPT !.ws = "CLOSED", !.wsReady = FALSE]
                        ELSE sessObj[k]]
  /\ iter' = [iter EXCEPT ![i].pc = "connecting", ![i].sess = c]
  /\ UNCHANGED <<now, streamQueue, streamEnded, nextPending, pushed, sttResults,
                 forwarded, fate, idleCloses>>
  /\ clientOut' = {}
  /\ UNCHANGED notSttVars

\* ws 'open': wsReady, the connection promise resolves and the waiting process goes on;
\* when the map has no entry any more, this.sessions.get(sessionId)! is undefined,
\* session.ws throws and process returns the error metadata from its catch block
ProviderOpen(c) ==
  LET W == {i \in Iterations : iter[i].pc = "connecting" /\ iter[i].sess = c}
      opened == [sessObj EXCEPT ![c].ws = "OPEN", ![c].wsReady = TRUE,
                                ![c].promise = "resolved"] IN
  /\ sessObj[c].ws = "CONNECTING"
  /\ IF W = {}
     THEN /\ sessObj' = opened
          /\ UNCHANGED <<iter, nextPending, sttResults>>
     ELSE LET i == CHOOSE x \in W : TRUE IN
          IF sessions = 0
          THEN /\ sessObj' = [opened EXCEPT ![c].shouldStopProcessing = FALSE]
               /\ iter' = [iter EXCEPT ![i].pc = "ended", ![i].returned = TRUE]
               /\ sttResults' = Append(sttResults, ErrorResultOf(i, iter[i]))
               /\ UNCHANGED nextPending
          ELSE /\ sessObj' = ResumeObjs(opened, sessions, c, i, now)
               /\ iter' = [iter EXCEPT ![i].pc = "next"]
               /\ nextPending' = Append(nextPending, i)
               /\ UNCHANGED sttResults
  /\ UNCHANGED <<now, sessions, objCount, streamQueue, streamEnded, pushed, started,
                 forwarded, fate, idleCloses>>
  /\ clientOut' = {}
  /\ UNCHANGED notSttVars

\* ws 'message' of type Begin: the provider announces the expiry time
ProviderBegin(c) ==
  /\ sessObj[c].ws = "OPEN"
  /\ sessObj[c].sessionExpiresAt = 0
  /\ sessObj' = [sessObj EXCEPT ![c].sessionExpiresAt = (now \div 1000) + ExpiresInSec]
  /\ UNCHANGED <<now, sessions, objCount, streamQueue, streamEnded, nextPending, pushed,
                 iter, started, sttResults, forwarded, fate, idleCloses>>
  /\ clientOut' = {}
  /\ UNCHANGED notSttVars

\* ws 'close': the provider drops the connection (also after an 'error' on an
\* open socket)
ProviderClose(c) ==
  /\ sessObj[c].ws = "OPEN"
  /\ sessObj' = [sessObj EXCEPT ![c].ws = "CLOSED", ![c].wsReady = FALSE]
  /\ UNCHANGED <<now, sessions, objCount, streamQueue, streamEnded, nextPending, pushed,
                 iter, started, sttResults, forwarded, fate, idleCloses>>
  /\ clientOut' = {}
  /\ UNCHANGED notSttVars

\* ws 'error' while connecting: the promise rejects, ensureConnection throws and
\* process returns the error metadata from its catch block
ProviderError(c) ==
  LET W == {i \in Iterations : iter[i].pc = "connecting" /\ iter[i].sess = c} IN
  /\ sessObj[c].ws = "CONNECTING"
  /\ sessObj' = [sessObj EXCEPT ![c].ws = "CLOSED", ![c].wsReady = FALSE,
                                ![c].promise = "rejected"]
  /\ iter' = [i \in Iterations |->
                IF i \in W THEN [iter[i] EXCEPT !.pc = "ended", !.returned = TRUE]
                ELSE iter[i]]
  /\ sttResults' = sttResults \o
                   [k \in 1..Cardinality(W) |->
                      ErrorResultOf(AscendingSeq(W)[k], iter[AscendingSeq(W)[k]])]
  /\ UNCHANGED <<now, sessions, objCount, streamQueue, streamEnded, nextPending, pushed,
                 started, forwarded, fate, idleCloses>>
  /\ clientOut' = {}
  /\ UNCHANGED notSttVars

\* ws 'message' of type Turn, delivered to every attached messageHandler
TurnEvent(c, transcript, isFinal) ==
  LET L == sessObj[c].listeners
      R == {i \in L : HandlerAccepts(iter[i], transcript, isFinal) /\ RacePending(iter[i])}
      order == AscendingSeq(R) IN
  /\ sessObj[c].ws = "OPEN"
  /\ L # {}
  /\ clientOut' = UNION {HandlerSends(i, iter[i], transcript, isFinal) : i \in L}
  /\ iter' = [i \in Iterations |->
                IF i \notin L THEN iter[i]
                ELSE LET q == HandlerApply(iter[i], transcript, isFinal)
                     IN IF i \in R THEN [q EXCEPT !.returned = TRUE] ELSE q]
  /\ sttResults' = sttResults \o
                   [k \in 1..Len(order) |->
                      ResultOf(order[k], HandlerApply(iter[order[k]], transcript, isFinal))]
  /\ UNCHANGED <<now, sessions, sessObj, objCount, streamQueue, streamEnded, nextPending,
                 pushed, started, forwarded, fate, idleCloses>>
  /\ UNCHANGED notSttVars

\* audioStream.next() of iteration i resolves: i made the oldest pending call
NextResolves(i) ==
  /\ iter[i].pc = "next"
  /\ nextPending # <<>>
  /\ Head(nextPending) = i

\* the audio loop of iteration i leaves its while loop: the finally block detaches
\* the handler, audioProcessingPromise resolves and, if the race is still pending,
\* process returns
LoopEnds(i, p) ==
  /\ iter' = [iter EXCEPT ![i] = [p EXCEPT !.pc = "ended", !.returned = TRUE]]
  /\ sessObj' = [sessObj EXCEPT ![p.sess].listeners = sessObj[p.sess].listeners \ {i}]
  /\ sttResults' = IF RacePending(p) THEN Append(sttResults, ResultOf(i, p))
                   ELSE sttResults

\* next() reports done: the stream was ended and is drained
LoopStreamDone(i) ==
  /\ NextResolves(i)
  /\ streamQueue = <<>>
  /\ streamEnded
  /\ nextPending' = Tail(nextPending)
  /\ LoopEnds(i, [iter[i] EXCEPT !.isStreamExhausted = TRUE])
  /\ UNCHANGED <<now, sessions, objCount, streamQueue, streamEnded, pushed, started,
                 forwarded, fate, idleCloses>>
  /\ clientOut' = {}
  /\ UNCHANGED notSttVars

\* the stop checks made after a chunk was received apply
StopAfterChunk(i) ==
  \/ iter[i].shouldStopProcessing
  \/ sessObj[iter[i].sess].shouldStopProcessing

\* next() yields a chunk, and the loop breaks on one of its stop flags
LoopDiscard(i) ==
  /\ NextResolves(i)
  /\ streamQueue # <<>>
  /\ StopAfterChunk(i)
  /\ streamQueue' = Tail(streamQueue)
  /\ nextPending' = Tail(nextPending)
  /\ fate' = [fate EXCEPT ![Head(streamQueue).id] =
                 IF Head(streamQueue).data.len > 0 THEN "discarded" ELSE "empty"]
  /\ LoopEnds(i, iter[i])
  /\ UNCHANGED <<now, sessions, objCount, streamEnded, pushed, started,
                 forwarded, idleCloses>>
  /\ clientOut' = {}
  /\ UNCHANGED notSttVars

\* next() yields a chunk without data: continue, i.e. the next call of next()
LoopSkipEmpty(i) ==
  /\ NextResolves(i)
  /\ streamQueue # <<>>
  /\ ~StopAfterChunk(i)
  /\ Head(streamQueue).data.len = 0
  /\ streamQueue' = Tail(streamQueue)
  /\ nextPending' = Append(Tail(nextPending), i)
  /\ fate' = [fate EXCEPT ![Head(streamQueue).id] = "empty"]
  /\ UNCHANGED <<now, sessions, sessObj, objCount, streamEnded, pushed, iter, started,
                 sttResults, forwarded, idleCloses>>
  /\ clientOut' = {}
  /\ UNCHANGED notSttVars

SendErrorCaughtNever == FALSE

\* the try/catch around session.ws.send: "Continue processing other chunks
\* instead of failing completely"
SendErrorCaught == TRUE

\* next() yields a chunk with data: it is counted, sent if the socket is open
\* (ws.send may throw, which is logged), and detectSpeech is awaited; a send
\* error that escaped would end the loop through its catch and finally blocks
\* and make process return its error result
LoopForward(i) ==
  LET chunk == Head(streamQueue)
      c == iter[i].sess
      open == sessObj[c].ws = "OPEN"
      counted == [iter[i] EXCEPT
                    !.audioChunkCount = iter[i].audioChunkCount + 1,
                    !.totalAudioSamples = iter[i].totalAudioSamples + chunk.data.len]
      escapes == open /\ ~chunk.data.sendOk /\ ~SendErrorCaught IN
  /\ NextResolves(i)
  /\ streamQueue # <<>>
  /\ ~StopAfterChunk(i)
  /\ chunk.data.len > 0
  /\ streamQueue' = Tail(streamQueue)
  /\ nextPending' = Tail(nextPending)
  /\ iter' = IF escapes
             THEN [iter EXCEPT ![i] = [counted EXCEPT !.pc = "ended", !.returned = TRUE]]
             ELSE [iter EXCEPT ![i] = [counted EXCEPT !.pc = "vad",
                                                     !.chunkLen = chunk.data.len,
                                                     !.chunkSpeech = chunk.data.speech,
                                                     !.chunkId = chunk.id]]
  /\ sttResults' = IF escapes /\ RacePending(iter[i])
                   THEN Append(sttResults, ErrorResultOf(i, counted))
                   ELSE sttResults
  /\ forwarded' = IF open /\ chunk.data.sendOk
                  THEN Append(forwarded, [chunk |-> chunk.id, conn |-> c,
                                          expired |-> IsExpired(sessObj[c], now)])
                  ELSE forwarded
  /\ fate' = [fate EXCEPT ![chunk.id] =
                 IF ~open THEN "skipped"
                 ELSE IF chunk.data.sendOk THEN "forwarded" ELSE "sendFailed"]
  /\ sessObj' = IF open /\ chunk.data.sendOk
                THEN [sessObj EXCEPT ![c].lastSend = now]
                ELSE IF escapes
                THEN [sessObj EXCEPT ![c].listeners = sessObj[c].listeners \ {i}]
                ELSE sessObj
  /\ UNCHANGED <<now, sessions, objCount, streamEnded, pushed, started, idleCloses>>
  /\ clientOut' = {}
  /\ UNCHANGED notSttVars

\* detectSpeech resolves: the endpointing latency is updated and the loop goes
\* back to its top, where it stops if the session was closed and calls next() otherwise
VadDone(i) ==
  LET p == [iter[i] EXCEPT
              !.endpointingLatency =
                 IF iter[i].chunkSpeech THEN 0
                 ELSE iter[i].endpointingLatency + ChunkDurationMs(iter[i].chunkLen),
              !.chunkLen = 0,
              !.chunkSpeech = FALSE,
              !.chunkId = 0] IN
  /\ iter[i].pc = "vad"
  /\ IF sessObj[p.sess].shouldStopProcessing
     THEN /\ LoopEnds(i, p)
          /\ UNCHANGED nextPending
     ELSE /\ iter' = [iter EXCEPT ![i] = [p EXCEPT !.pc = "next"]]
          /\ nextPending' = Append(nextPending, i)
          /\ UNCHANGED <<sessObj, sttResults>>
  /\ UNCHANGED <<now, sessions, objCount, streamQueue, streamEnded, pushed, started,
                 forwarded, fate, idleCloses>>
  /\ clientOut' = {}
  /\ UNCHANGED notSttVars

\* time passes; a timer that is due fires first
Tick ==
  /\ now < MaxTicks * TickMs
  /\ \A c \in Conns : sessObj[c].timer = -1 \/ now < sessObj[c].timer
  /\ now' = now + TickMs
  /\ UNCHANGED <<sessions, sessObj, objCount, streamQueue, streamEnded, nextPending,
                 pushed, iter, started, sttResults, forwarded, fate, idleCloses>>
  /\ clientOut' = {}
  /\ UNCHANGED notSttVars

\* the inactivity timeout set on session object c fires:
\* closeConnectionDueToInactivity(sessionId), on the entry the map holds now
InactivityTimerFires(c) ==
  LET fired == [sessObj EXCEPT ![c].timer = -1]
      s == sessions IN
  /\ sessObj[c].timer # -1
  /\ now >= sessObj[c].timer
  /\ IF s = 0
     THEN /\ sessObj' = fired
          /\ UNCHANGED <<sessions, idleCloses>>
     ELSE IF fired[s].ws # "NONE" /\ fired[s].wsReady
          THEN /\ sessObj' = [fired EXCEPT ![s].shouldStopProcessing = TRUE,
                                           ![s].ws = "CLOSED", ![s].wsReady = FALSE]
               /\ sessions' = 0
               /\ idleCloses' = idleCloses \cup
                    {[conn |-> s, at |-> now, lastSend |-> fired[s].lastSend, pushed |-> pushed]}
          ELSE /\ sessObj' = [fired EXCEPT ![s].shouldStopProcessing = TRUE]
               /\ UNCHANGED <<sessions, idleCloses>>
  /\ UNCHANGED <<now, objCount, streamQueue, streamEnded, nextPending, pushed, iter,
                 started, sttResults, forwarded, fate>>
  /\ clientOut' = {}
  /\ UNCHANGED notSttVars

\* the steps of the node that do not depend on the passing of time
SttTurnNext ==
  \/ \E kind \in ChunkKinds : PushChunk(kind)
  \/ EndStream
  \/ StartProcessReuse
  \/ StartProcessConnect
  \/ \E c \in Conns : ProviderOpen(c)
  \/ \E c \in Conns : ProviderBegin(c)
  \/ \E c \in Conns : ProviderClose(c)
  \/ \E c \in Conns : ProviderError(c)
  \/ \E c \in Conns : \E tr \in Transcripts : \E f \in BOOLEAN : TurnEvent(c, tr, f)
  \/ \E i \in Iterations : LoopStreamDone(i)
  \/ \E i \in Iterations : LoopDiscard(i)
  \/ \E i \in Iterations : LoopSkipEmpty(i)
  \/ \E i \in Iterations : LoopForward(i)
  \/ \E i \in Iterations : VadDone(i)

SttNext ==
  \/ SttTurnNext
  \/ Tick
  \/ \E c \in Conns : InactivityTimerFires(c)

\* the node within its first TickMs: no timer is due and no connection expires
SttTurnSpec == Init /\ [][SttTurnNext]_vars

\* the node with time passing, up to MaxTicks * TickMs
SttSpec == Init /\ [][SttNext]_vars

(***************************************************************************)
(* Properties of the transcription node                                    *)
(***************************************************************************)
ResultsOf(i) == {k \in 1..Len(sttResults) : sttResults[k].iteration = i}

\* C6: every call of process yields exactly one result once it has returned and
\* none before, whatever the interleaving of turn events and stream
\* exhaustion; a result of an iteration that accepted no turn has an empty
\* transcript and interaction_complete = false
C6_ExactlyOneResult ==
  \A i \in Iterations :
    /\ Cardinality(ResultsOf(i)) = IF iter[i].returned THEN 1 ELSE 0
    /\ \A k \in ResultsOf(i) :
         ~iter[i].turnDetected =>
            sttResults[k].transcript = "" /\ ~sttResults[k].interaction_complete

\* an iteration accepted a final turn, its stream was exhausted as well, and the
\* call has returned
C6_Witness ==
  \E i \in Iterations :
    iter[i].returned /\ iter[i].turnDetected /\ iter[i].isStreamExhausted

\* C7: once an iteration has accepted a final turn, no later step changes its
\* transcript or sends the client a TEXT or CANCEL_RESPONSE carrying its id
C7_IgnoredAfterFinal ==
  [][\A i \in Iterations :
       iter[i].turnDetected =>
         /\ iter'[i].transcriptText = iter[i].transcriptText
         /\ \A m \in clientOut' : m.interactionId # NextInteractionId(i)]_vars

\* a turn event reached the handler of an iteration that had accepted its final turn
C7_Witness == \E i \in Iterations : iter[i].turnDetected /\ iter[i].ignored

\* C8: every non-empty chunk taken from the stream was forwarded to the
\* provider, unless its send failed (ws.send threw, or the socket was not open)
C8_TakenChunksForwarded ==
  \A k \in 1..MaxChunks : fate[k] \in {"none", "empty", "forwarded", "sendFailed", "skipped"}

\* C9: no chunk is forwarded on a connection whose expiry time has passed
C9_NoForwardOnExpired ==
  \A k \in 1..Len(forwarded) : ~forwarded[k].expired

\* C10: a connection is closed for inactivity only if no chunk was forwarded on
\* it during the INACTIVITY_TIMEOUT_MS before the close
C10_IdleCloseOnlyWhenIdle ==
  \A e \in idleCloses :
    e.lastSend = -1 \/ e.at - e.lastSend >= INACTIVITY_TIMEOUT_MS

\* C11: the first chunk that arrives after an idle teardown is not lost: once
\* taken from the stream it was forwarded, and on another connection than the
\* one torn down (stated for runs in which no turn was accepted, so that the
\* only stop flag in play is the one the teardown sets)
C11_NextChunkAfterIdleCloseForwarded ==
  (\A i \in Iterations : ~iter[i].turnDetected) =>
    \A e \in idleCloses :
      e.pushed < MaxChunks =>
        /\ fate[e.pushed + 1] \in {"none", "empty", "forwarded", "sendFailed"}
        /\ \A k \in 1..Len(forwarded) :
             forwarded[k].chunk = e.pushed + 1 => forwarded[k].conn # e.conn

\* the iterations whose audio loop is running: suspended in next() or in detectSpeech
LoopsReading == {i \in Iterations : iter[i].pc \in {"next", "vad"}}

\* C38: once process has returned for an iteration, the audio loop of that
\* iteration has ended and its turn listener is detached; so a provider
\* connection has at most one listener attached and at most one loop is reading
\* the session's chunk stream
C38_OneListenerOneLoop ==
  /\ \A i \in Iterations :
       iter[i].returned =>
          /\ iter[i].pc = "ended"
          /\ \A c \in Conns : i \notin sessObj[c].listeners
  /\ \A c \in Conns : Cardinality(sessObj[c].listeners) <= 1
  /\ Cardinality(LoopsReading) <= 1

(***************************************************************************)
(* Part III: AudioStreamManager with the consumer of createStream.         *)
(*                                                                         *)
(* The k-th call of pushChunk carries chunk k.  The body of createStream   *)
(* runs from one suspension (initial, at a yield, at the await) to the     *)
(* next; the consumer asks for the next value each time it got one.        *)
(***************************************************************************)
PushIgnoredNever(e) == FALSE

\* pushChunk: if (this.ended) return
PushIgnored(e) == e

HasWaiterNever(w) == FALSE

\* pushChunk: this.waitingResolvers.length > 0
HasWaiter(w) == Len(w) > 0

TakeQueuedLast(q) == [chunk |-> q[Len(q)], rest |-> SubSeq(q, 1, Len(q) - 1)]

\* createStream: this.queue.shift()
TakeQueued(q) == [chunk |-> Head(q), rest |-> Tail(q)]

ResolvedByEndNone(w) == <<>>

\* end: the resolvers its while loop shifts and resolves with done
ResolvedByEnd(w) == w

\* AudioStreamManager.pushChunk
AsmPushChunk ==
  LET chunk == pushCalls + 1 IN
  /\ pushCalls < MaxPush
  /\ pushCalls' = chunk
  /\ accepted' = IF ended THEN accepted ELSE Append(accepted, chunk)
  /\ IF PushIgnored(ended)
     THEN UNCHANGED <<queue, waitingResolvers, promiseResult, handed>>
     ELSE IF HasWaiter(waitingResolvers)
          THEN /\ waitingResolvers' = Tail(waitingResolvers)
               /\ promiseResult' = [done |-> FALSE, value |-> chunk]
               /\ handed' = handed \cup {chunk}
               /\ UNCHANGED queue
          ELSE /\ queue' = Append(queue, chunk)
               /\ UNCHANGED <<waitingResolvers, promiseResult, handed>>
  /\ UNCHANGED <<ended, genPc, received, endCalls, endSaw>>
  /\ UNCHANGED notAsmVars

\* AudioStreamManager.end
AsmEnd ==
  LET resolved == ResolvedByEnd(waitingResolvers) IN
  /\ endCalls < MaxEnds
  /\ endCalls' = endCalls + 1
  /\ ended' = TRUE
  /\ waitingResolvers' = SubSeq(waitingResolvers, Len(resolved) + 1, Len(waitingResolvers))
  /\ promiseResult' = IF Len(resolved) > 0 THEN [done |-> TRUE, value |-> 0]
                      ELSE promiseResult
  /\ endSaw' = IF endCalls = 0
               THEN [waiting |-> Len(waitingResolvers) > 0, queued |-> Len(queue),
                     got |-> Len(received)]
               ELSE endSaw
  /\ UNCHANGED <<queue, genPc, received, pushCalls, accepted, handed>>
  /\ UNCHANGED notAsmVars

\* the consumer calls next(): the body of createStream runs from the top of its
\* loop to a yield, to its end, or to the await
ConsumerNext ==
  /\ genPc = "suspended"
  /\ IF Len(queue) > 0
     THEN /\ queue' = TakeQueued(queue).rest
          /\ received' = Append(received, TakeQueued(queue).chunk)
          /\ UNCHANGED <<genPc, waitingResolvers>>
     ELSE IF ended
          THEN /\ genPc' = "done"
               /\ UNCHANGED <<queue, received, waitingResolvers>>
          ELSE /\ waitingResolvers' = Append(waitingResolvers, "resolve")
               /\ genPc' = "waiting"
               /\ UNCHANGED <<queue, received>>
  /\ UNCHANGED <<ended, promiseResult, pushCalls, endCalls, accepted, handed, endSaw>>
  /\ UNCHANGED notAsmVars

\* the awaited promise was resolved: the body goes on after the await
ConsumerResume ==
  /\ genPc = "waiting"
  /\ promiseResult # Pending
  /\ promiseResult' = Pending
  /\ IF promiseResult.done
     THEN /\ genPc' = "done"
          /\ UNCHANGED received
     ELSE /\ genPc' = "suspended"
          /\ received' = Append(received, promiseResult.value)
  /\ UNCHANGED <<queue, waitingResolvers, ended, pushCalls, endCalls, accepted, handed,
                 endSaw>>
  /\ UNCHANGED notAsmVars

AsmNext ==
  \/ AsmPushChunk
  \/ AsmEnd
  \/ ConsumerNext
  \/ ConsumerResume

AsmSpec == Init /\ [][AsmNext]_vars

\* the consumer keeps asking for the next value
AsmFairSpec == AsmSpec /\ WF_vars(ConsumerNext) /\ WF_vars(ConsumerResume)

(***************************************************************************)
(* Properties of AudioStreamManager                                        *)
(***************************************************************************)
IsPrefix(a, b) == Len(a) <= Len(b) /\ a = SubSeq(b, 1, Len(a))

\* C12: the consumer of createStream receives the chunks pushed before end(),
\* each once and in push order, and when the stream has terminated it has
\* received all of them
C12_PushOrderDelivered ==
  /\ IsPrefix(received, accepted)
  /\ genPc = "done" => received = accepted

\* several chunks were pushed, end() was called and the consumer has finished
C12_Witness ==
  genPc = "done" /\ Len(accepted) >= 2 /\ received = accepted

\* C13: a chunk pushed while the consumer is suspended waiting goes to the
\* waiting resolver and not into the queue, and whatever the interleaving the
\* consumer receives the chunks in arrival order without loss or duplication
C13_DirectHandoff ==
  [][/\ (pushCalls' # pushCalls /\ ~ended /\ Len(waitingResolvers) > 0) =>
          /\ queue' = queue
          /\ waitingResolvers' = Tail(waitingResolvers)
          /\ promiseResult' = [done |-> FALSE, value |-> pushCalls']
     /\ ~(Len(queue') > 0 /\ Len(waitingResolvers') > 0)
     /\ IsPrefix(received', accepted')]_vars

\* a chunk that was handed to the waiting consumer has been received, after an
\* earlier chunk
C13_Witness ==
  \E k \in 2..Len(received) : received[k] \in handed

\* C14: once the stream is ended, a call of end or pushChunk leaves the queue,
\* the waiting resolvers and the ended flag as they are, and only chunks pushed
\* before end() are ever delivered
C14_EndedIsFinal ==
  [][/\ (ended /\ (pushCalls' # pushCalls \/ endCalls' # endCalls)) =>
          UNCHANGED <<queue, waitingResolvers, ended, promiseResult>>
     /\ \A k \in 1..Len(received') :
          \E j \in 1..Len(accepted') : received'[k] = accepted'[j]]_vars

\* end() was called twice and a chunk was pushed after the first end()
C14_Witness ==
  ended /\ endCalls >= 2 /\ pushCalls > Len(accepted)

\* C15: after end() the consumer terminates; it has then drained the queue, and
\* a consumer that was suspended waiting at end() finishes without another value
C15_ConsumerTerminates ==
  /\ ended ~> (genPc = "done")
  /\ [](genPc = "done" =>
         /\ queue = <<>>
         /\ received = accepted
         /\ endSaw.waiting => Len(received) = endSaw.got)

\* the consumer was suspended waiting when end() was called, and has finished
C15_Witness ==
  genPc = "done" /\ endSaw.waiting

(***************************************************************************)
(* Part IV: MessageHandler, audio messages of one session.                 *)
(*                                                                         *)
(* ws.on('message') calls handleMessage without awaiting it, so the        *)
(* handler of a later message runs while an earlier one is suspended.      *)
(* Audio message m is the m-th one received.                               *)
(***************************************************************************)
resultVars == <<resultLoop, currentGraphInteractionId, resultCount, lastResult,
                lastLearnedId, errorsSent>>

\* uuid v4(): an id nobody has seen before
FreshId == <<"v4", 0>>

\* interactionIds carried by the State results of the graph
ResultIds == {<<AudioBase, 1>>, <<AudioBase, 2>>}

\* State results: output of TextInputNode (user) or StateUpdateNode (assistant)
StateResults ==
  {[kind |-> "state", role |-> "user", interactionId |-> id] : id \in ResultIds}
  \cup {[kind |-> "state", role |-> "assistant", interactionId |-> <<AudioBase, 1>>]}

\* GraphError results: status code, and what the message contains
ErrorResults ==
  {[kind |-> "error", code |-> DEADLINE_EXCEEDED, timedOut |-> FALSE, noText |-> FALSE],
   [kind |-> "error", code |-> 13, timedOut |-> TRUE, noText |-> FALSE],
   [kind |-> "error", code |-> 13, timedOut |-> FALSE, noText |-> TRUE],
   [kind |-> "error", code |-> 13, timedOut |-> FALSE, noText |-> FALSE]}

IsTimeoutNever(e) == FALSE

\* isTimeout: code 4 or a message that includes 'timed out'
IsTimeout(e) == e.code = DEADLINE_EXCEEDED \/ e.timedOut

\* currentGraphInteractionId || v4()
EffectiveInteractionId(id) == IF id = NoId THEN FreshId ELSE id

\* processSingleResult for a State result: the id it returns
ProcessSingleResult(res, id) ==
  IF res.role = "assistant" THEN id ELSE res.interactionId

\* connection.audioStreamManager.pushChunk at the end of processAudioChunk: the
\* call throws if the manager was removed, and is a no-op on an ended stream
PushFromHandler(order, manager, m) ==
  IF manager = "open" THEN Append(order, m) ELSE order

\* handleMessage for an audio message with the manager present: pushChunk at once
AudioMessagePush ==
  /\ wireCount < MaxMsgs
  /\ audioStreamManager # "none"
  /\ wireCount' = wireCount + 1
  /\ pushOrder' = PushFromHandler(pushOrder, audioStreamManager, wireCount + 1)
  /\ UNCHANGED <<audioStreamManager, currentAudioGraphExecution, awaitingGraph, sessionEnds,
                 endHandlers>>
  /\ UNCHANGED resultVars
  /\ UNCHANGED notAudioVars

\* handleMessage for an audio message without a manager: processAudioChunk creates
\* the manager and suspends at await getGraphForSTTService
AudioMessageCreate ==
  /\ wireCount < MaxMsgs
  /\ audioStreamManager = "none"
  /\ wireCount' = wireCount + 1
  /\ audioStreamManager' = "open"
  /\ awaitingGraph' = Append(awaitingGraph, wireCount + 1)
  /\ UNCHANGED <<currentAudioGraphExecution, pushOrder, sessionEnds, endHandlers>>
  /\ UNCHANGED resultVars
  /\ UNCHANGED notAudioVars

\* getGraphForSTTService resolves: the suspended handler starts the graph
\* execution on the manager it created, then pushes its chunk
GraphResolved ==
  /\ awaitingGraph # <<>>
  /\ awaitingGraph' = Tail(awaitingGraph)
  /\ currentAudioGraphExecution' = TRUE
  /\ resultLoop' = "reading"
  /\ currentGraphInteractionId' = NoId
  /\ lastLearnedId' = NoId
  /\ pushOrder' = PushFromHandler(pushOrder, audioStreamManager, Head(awaitingGraph))
  /\ UNCHANGED <<wireCount, audioStreamManager, sessionEnds, resultCount, lastResult,
                 errorsSent, endHandlers>>
  /\ UNCHANGED notAudioVars

\* an audioSessionEnd that leaves the manager as it is
ManagerAfterEndUntouched(manager) == manager

\* if (audioConnection?.audioStreamManager) audioStreamManager.end()
ManagerAfterEnd(manager) == IF manager = "none" THEN "none" ELSE "ended"

\* handleMessage for audioSessionEnd: audioStreamManager.end() if there is a
\* manager, and then await currentAudioGraphExecution if there is one
AudioSessionEnd ==
  /\ sessionEnds < MaxSessionEnds
  /\ sessionEnds' = sessionEnds + 1
  /\ audioStreamManager' = ManagerAfterEnd(audioStreamManager)
  /\ endHandlers' = Append(endHandlers,
                           IF audioStreamManager # "none" /\ currentAudioGraphExecution
                           THEN "awaiting" ELSE "returned")
  /\ UNCHANGED <<wireCount, currentAudioGraphExecution, awaitingGraph, pushOrder>>
  /\ UNCHANGED resultVars
  /\ UNCHANGED notAudioVars

\* the graph output of an ended stream is exhausted: the finally block of
\* executeGraphWithAudioStream removes the manager and the execution, and the
\* handlers that await the execution return
AudioExecutionCompletes ==
  /\ currentAudioGraphExecution
  /\ audioStreamManager = "ended"
  /\ audioStreamManager' = "none"
  /\ currentAudioGraphExecution' = FALSE
  /\ resultLoop' = "none"
  /\ endHandlers' = [k \in 1..Len(endHandlers) |->
                        IF endHandlers[k] = "awaiting" THEN "awaited" ELSE endHandlers[k]]
  /\ UNCHANGED <<wireCount, awaitingGraph, pushOrder, sessionEnds, currentGraphInteractionId,
                 resultCount, lastResult, lastLearnedId, errorsSent>>
  /\ UNCHANGED notAudioVars

\* one pass of the for-await over outputStream in executeGraphWithAudioStream
AudioResult(res) ==
  /\ currentAudioGraphExecution
  /\ resultLoop = "reading"
  /\ resultCount < MaxResults
  /\ resultCount' = resultCount + 1
  /\ lastResult' = res
  /\ IF res.kind = "error"
     THEN /\ errorsSent' = Append(errorsSent,
                 [interactionId |-> EffectiveInteractionId(currentGraphInteractionId),
                  result |-> resultCount + 1, error |-> res])
          /\ IF IsTimeout(res)
             THEN audioStreamManager' = "ended" /\ resultLoop' = "stopped"
             ELSE UNCHANGED <<audioStreamManager, resultLoop>>
          /\ UNCHANGED <<currentGraphInteractionId, lastLearnedId>>
     ELSE /\ currentGraphInteractionId' = ProcessSingleResult(res, currentGraphInteractionId)
          /\ lastLearnedId' = IF res.role = "user" THEN res.interactionId ELSE lastLearnedId
          /\ UNCHANGED <<errorsSent, audioStreamManager, resultLoop>>
  /\ UNCHANGED <<wireCount, currentAudioGraphExecution, awaitingGraph, pushOrder, sessionEnds,
                 endHandlers>>
  /\ UNCHANGED notAudioVars

AudioNext ==
  \/ \E res \in StateResults \cup ErrorResults : AudioResult(res)
  \/ AudioMessagePush
  \/ AudioMessageCreate
  \/ GraphResolved
  \/ AudioSessionEnd
  \/ AudioExecutionCompletes

AudioSpec == Init /\ [][AudioNext]_vars

\* C16: the audio messages of a session are pushed into the session's stream in
\* the order they were received
C16_PushedInWireOrder ==
  \A a, b \in 1..Len(pushOrder) : a < b => pushOrder[a] < pushOrder[b]

\* C17: when the audio result loop reads a timeout error it ends the stream,
\* stops reading, and sends one ERROR event, which carries the last id learned
\* from the State results of the execution; a stopped loop reads nothing more
C17_TimeoutEndsAudioSession ==
  [][/\ (resultCount' = resultCount + 1 /\ lastResult'.kind = "error"
         /\ (lastResult'.code = DEADLINE_EXCEEDED \/ lastResult'.timedOut)) =>
          /\ audioStreamManager' = "ended"
          /\ resultLoop' = "stopped"
          /\ Len(errorsSent') = Len(errorsSent) + 1
          /\ lastLearnedId # NoId =>
                errorsSent'[Len(errorsSent')].interactionId = lastLearnedId
     /\ resultLoop = "stopped" => resultCount' = resultCount]_vars

\* a timeout error was read after an id had been learned, and its ERROR was sent
C17_Witness ==
  /\ resultLoop = "stopped"
  /\ lastLearnedId # NoId
  /\ Len(errorsSent) > 0
  /\ errorsSent[Len(errorsSent)].interactionId = lastLearnedId

\* C18: no ERROR event is sent for an error whose message says that recognition
\* produced no text
C18_NoTextErrorSuppressed ==
  \A k \in 1..Len(errorsSent) : ~errorsSent[k].error.noText

AdmitSttTurn(i) ==
  /\ iter[i].returned
  /\ LastResultOf(i).interaction_complete
  /\ ~DataStoreHas(dataStore, <<QUEUED_PREFIX, NextInteractionId(i)>>)
  /\ AdmitTurn(NextInteractionId(i), "a")

UnloadNext ==
  \/ Unload
  \/ ProcessThrowsUnloaded
  \/ PushChunk([len |-> 1600, speech |-> FALSE, sendOk |-> TRUE])
  \/ EndStream
  \/ StartProcessReuse
  \/ StartProcessConnect
  \/ \E c \in Conns : ProviderOpen(c)
  \/ \E c \in Conns : TurnEvent(c, "hi", TRUE)
  \/ \E i \in Iterations : LoopStreamDone(i)
  \/ \E i \in Iterations : LoopDiscard(i)
  \/ \E i \in Iterations : LoopForward(i)
  \/ \E i \in Iterations : AdmitSttTurn(i)
  \/ \E id \in AudioIds : AdmitLoop(id)
  \/ \E id \in AudioIds : TextInputNodeProcess(id)
  \/ \E id \in AudioIds : StateUpdateNodeProcess(id)
  \/ \E id \in AudioIds : NodeThrowsUnloaded(id)

UnloadSpec == Init /\ [][UnloadNext]_vars

\* C19: once the connection is unloaded no step appends a message, changes the
\* session's interactionId or adds a completion key, and a call of process
\* takes no chunk, registers no next() and touches no provider connection
C19_UnloadedNodesChangeNothing ==
  [][unloaded =>
       /\ messages' = messages
       /\ interactionId' = interactionId
       /\ \A k \in DOMAIN dataStore' :
            k[1] = COMPLETED_PREFIX => k \in DOMAIN dataStore
       /\ started' # started =>
            /\ iter'[started'].pc = "thrown"
            /\ UNCHANGED <<streamQueue, nextPending, sessions, sessObj, objCount, fate>>]_vars

\* after the unload a dispatched turn failed in a generation node and a call of
\* process threw
C19_Witness ==
  /\ unloaded
  /\ \E i \in Iterations : iter[i].pc = "thrown"
  /\ \E id \in AudioIds : stage[id] = "failed"

(***************************************************************************)
(* Part VI: MessageHandler, text messages of one session.                  *)
(* Every client socket opened with the session's id gets a MessageHandler  *)
(* of its own (index.ts, webSocket.on('connection')); text message k is    *)
(* the k-th text message the session receives.                             *)
(***************************************************************************)
Uuid(k) == <<"v4", k>>

\* the events of one type and interaction id among those a handler sent
EventsOf(h, type, k) == {n \in 1..Len(sent[h]) : sent[h][n] = <<type, Uuid(k)>>}

\* processQueue from its while test on: take the next task and run it up to its
\* first await (graph.start), or leave the loop and clear isProcessing
ProcessQueueLoop(h, pq) ==
  IF Len(pq) > 0
    THEN /\ processingQueue' = [processingQueue EXCEPT ![h] = Tail(pq)]
         /\ currentTask' = [currentTask EXCEPT ![h] = Head(pq)]
         /\ dispatch' = [dispatch EXCEPT ![Head(pq)] = "starting"]
         /\ isProcessing' = [isProcessing EXCEPT ![h] = TRUE]
    ELSE /\ processingQueue' = [processingQueue EXCEPT ![h] = pq]
         /\ currentTask' = [currentTask EXCEPT ![h] = 0]
         /\ isProcessing' = [isProcessing EXCEPT ![h] = FALSE]

\* handleMessage, case text: createNewInteraction, then addToQueue and processQueue
TextMessage(h) ==
  LET k == textMsgs + 1 IN
  /\ textMsgs < MaxTextMsgs
  /\ textMsgs' = k
  /\ sent' = [sent EXCEPT ![h] = Append(@, <<"NEW_INTERACTION", Uuid(k)>>)]
  /\ IF isProcessing[h]
       THEN /\ processingQueue' = [processingQueue EXCEPT ![h] = Append(@, k)]
            /\ dispatch' = [dispatch EXCEPT ![k] = "queued"]
            /\ UNCHANGED <<isProcessing, currentTask>>
       ELSE ProcessQueueLoop(h, Append(processingQueue[h], k))
  /\ UNCHANGED notTextVars

\* executeGraph: graph.start resolves and handleResponse starts reading outputStream
TextGraphStarted(h) ==
  /\ currentTask[h] # 0
  /\ dispatch[currentTask[h]] = "starting"
  /\ dispatch' = [dispatch EXCEPT ![currentTask[h]] = "reading"]
  /\ UNCHANGED <<processingQueue, isProcessing, currentTask, textMsgs, sent>>
  /\ UNCHANGED notTextVars

\* handleResponse reads one result and processSingleResult sends its event
TextOutput(h) ==
  LET k == currentTask[h] IN
  /\ k # 0
  /\ dispatch[k] = "reading"
  /\ Cardinality(EventsOf(h, "TEXT", k)) < MaxOutputs
  /\ sent' = [sent EXCEPT ![h] = Append(@, <<"TEXT", Uuid(k)>>)]
  /\ UNCHANGED <<processingQueue, isProcessing, currentTask, dispatch, textMsgs>>
  /\ UNCHANGED notTextVars

\* outputStream is exhausted: executeGraph sends INTERACTION_END and returns, and
\* processQueue goes on with its loop
TextTaskFinishes(h) ==
  LET k == currentTask[h] IN
  /\ k # 0
  /\ dispatch[k] = "reading"
  /\ sent' = [sent EXCEPT ![h] = Append(@, <<"INTERACTION_END", Uuid(k)>>)]
  /\ IF Len(processingQueue[h]) > 0
       THEN /\ processingQueue' = [processingQueue EXCEPT ![h] = Tail(@)]
            /\ currentTask' = [currentTask EXCEPT ![h] = Head(processingQueue[h])]
            /\ dispatch' = [dispatch EXCEPT ![k] = "finished",
                                            ![Head(processingQueue[h])] = "starting"]
            /\ UNCHANGED isProcessing
       ELSE /\ currentTask' = [currentTask EXCEPT ![h] = 0]
            /\ isProcessing' = [isProcessing EXCEPT ![h] = FALSE]
            /\ dispatch' = [dispatch EXCEPT ![k] = "finished"]
            /\ UNCHANGED processingQueue
  /\ UNCHANGED textMsgs
  /\ UNCHANGED notTextVars

TextNext ==
  \/ \E h \in Handlers : TextMessage(h)
  \/ \E h \in Handlers : TextGraphStarted(h)
  \/ \E h \in Handlers : TextOutput(h)
  \/ \E h \in Handlers : TextTaskFinishes(h)

TextSpec == Init /\ [][TextNext]_vars

Running(k) == dispatch[k] \in {"starting", "reading"}

\* C20: a text dispatch of the session runs only when every text message that
\* arrived before it has finished, and each text message has one NEW_INTERACTION
\* with its own id and, once finished, one INTERACTION_END after its output
C20_TextDispatchesSerial ==
  /\ \A k \in TextMessages :
       Running(k) => \A j \in 1..(k - 1) : dispatch[j] = "finished"
  /\ \A k \in 1..textMsgs :
       \E h \in Handlers :
         /\ Cardinality(EventsOf(h, "NEW_INTERACTION", k)) = 1
         /\ Cardinality(EventsOf(h, "INTERACTION_END", k)) =
              (IF dispatch[k] = "finished" THEN 1 ELSE 0)
         /\ \A e \in EventsOf(h, "INTERACTION_END", k) :
              \A o \in EventsOf(h, "TEXT", k) : o < e

TaskErrorCaughtNever == FALSE

\* the try/catch around await task() in processQueue
TaskErrorCaught == TRUE

\* the running task rejects: graph.start fails, or a send to the client throws
\* while the output is read; no INTERACTION_END is sent.  The catch of
\* processQueue logs the error and the loop goes on; an error that escaped would
\* reject processQueue before it clears isProcessing
TextTaskThrows(h) ==
  LET k == currentTask[h] IN
  /\ k # 0
  /\ dispatch[k] \in {"starting", "reading"}
  /\ IF ~TaskErrorCaught
       THEN /\ currentTask' = [currentTask EXCEPT ![h] = 0]
            /\ dispatch' = [dispatch EXCEPT ![k] = "failed"]
            /\ UNCHANGED <<processingQueue, isProcessing>>
       ELSE IF Len(processingQueue[h]) > 0
       THEN /\ processingQueue' = [processingQueue EXCEPT ![h] = Tail(@)]
            /\ currentTask' = [currentTask EXCEPT ![h] = Head(processingQueue[h])]
            /\ dispatch' = [dispatch EXCEPT ![k] = "failed",
                                            ![Head(processingQueue[h])] = "starting"]
            /\ UNCHANGED isProcessing
       ELSE /\ currentTask' = [currentTask EXCEPT ![h] = 0]
            /\ isProcessing' = [isProcessing EXCEPT ![h] = FALSE]
            /\ dispatch' = [dispatch EXCEPT ![k] = "failed"]
            /\ UNCHANGED processingQueue
  /\ UNCHANGED <<textMsgs, sent>>
  /\ UNCHANGED notTextVars

\* the MessageHandler of the session's first client socket
FirstHandler == CHOOSE h \in Handlers : \A g \in Handlers : h <= g

\* the serial queue of one MessageHandler, with tasks that may throw
TextThrowNext ==
  \/ TextMessage(FirstHandler)
  \/ TextGraphStarted(FirstHandler)
  \/ TextOutput(FirstHandler)
  \/ TextTaskFinishes(FirstHandler)
  \/ TextTaskThrows(FirstHandler)

TextThrowSpec == Init /\ [][TextThrowNext]_vars

\* graph.start settles and a task that reads its output settles: every started
\* task finishes or throws
TextThrowFairSpec ==
  /\ TextThrowSpec
  /\ WF_vars(TextGraphStarted(FirstHandler))
  /\ WF_vars(TextTaskFinishes(FirstHandler) \/ TextTaskThrows(FirstHandler))

\* the text messages received on the socket of handler h, in order of arrival
TasksOf(h) == {k \in 1..textMsgs : EventsOf(h, "NEW_INTERACTION", k) # {}}

Settled(k) == dispatch[k] \in {"finished", "failed"}

\* C40: a task that throws does not stop the queue of its handler: a task runs
\* only when every task queued before it on that handler has finished or thrown,
\* isProcessing is true exactly while a task of the handler is running, nothing
\* is queued on a handler that is not processing, and every queued task
\* eventually runs
C40_ThrowingTaskDoesNotStall ==
  /\ [](\A h \in Handlers :
          /\ isProcessing[h] <=> currentTask[h] # 0
          /\ processingQueue[h] # <<>> => isProcessing[h]
          /\ \A k \in TasksOf(h) :
               /\ Running(k) => currentTask[h] = k
               /\ Running(k) \/ Settled(k) => \A j \in TasksOf(h) : j < k => Settled(j))
  /\ \A k \in TextMessages : (dispatch[k] = "queued") ~> Settled(k)

\* on one socket the first task threw, the second ran after it and finished, the
\* queue has drained and a third message has started processing again
C40_Witness ==
  \E h \in Handlers :
    /\ TasksOf(h) = {1, 2, 3}
    /\ dispatch[1] = "failed" /\ dispatch[2] = "finished"
    /\ Cardinality(EventsOf(h, "NEW_INTERACTION", 3)) = 1
    /\ \A e \in EventsOf(h, "INTERACTION_END", 2) :
         \A n \in EventsOf(h, "NEW_INTERACTION", 3) : e < n
    /\ Running(3)

(***************************************************************************)
(* Part VII: the audio graph while a turn is being generated: the          *)
(* transcription node keeps listening on one healthy provider connection   *)
(* and the queue node withholds the turns it detects.                      *)
(***************************************************************************)
BargeInNext ==
  \/ PushChunk([len |-> 1600, speech |-> FALSE, sendOk |-> TRUE])
  \/ EndStream
  \/ StartProcessReuse
  \/ StartProcessConnect
  \/ \E c \in Conns : ProviderOpen(c)
  \/ \E c \in Conns, t \in Transcripts, f \in BOOLEAN : TurnEvent(c, t, f)
  \/ \E i \in Iterations : LoopStreamDone(i)
  \/ \E i \in Iterations : LoopDiscard(i)
  \/ \E i \in Iterations : LoopForward(i)
  \/ \E i \in Iterations : AdmitSttTurn(i)
  \/ \E id \in AudioIds : AdmitLoop(id)
  \/ \E id \in AudioIds : TextInputNodeProcess(id)
  \/ \E id \in AudioIds : StateUpdateNodeProcess(id)

BargeInSpec == Init /\ [][BargeInNext]_vars

\* an admitted turn is between TextInputNode and the end of StateUpdateNode
TurnRunning(id) == stage[id] \in {"dispatched", "generating"}

\* a handler attached to connection c that has not accepted its final turn yet
Listening(c) == {i \in sessObj[c].listeners : ~HandlerStopped(iter[i])}

\* C21: a Turn event with a non-empty transcript handled while an admitted
\* turn is running sends CANCEL_RESPONSE, leaves the provider connection open
\* and the running turn running, and admit returns a turn only when no other
\* turn is running
C21_CancelWithoutAbort ==
  /\ [][\A c \in Conns, t \in Transcripts \ {""}, f \in BOOLEAN :
          (/\ TurnEvent(c, t, f)
           /\ Listening(c) # {}
           /\ \E id \in AudioIds : TurnRunning(id))
          => /\ \E i \in Listening(c) :
                  [type |-> "CANCEL_RESPONSE", interactionId |-> NextInteractionId(i)]
                    \in clientOut'
             /\ sessObj'[c].ws = "OPEN"
             /\ sessions' = sessions
             /\ stage' = stage
             /\ results' = results]_vars
  /\ [][results' # results => \A id \in AudioIds : ~TurnRunning(id)]_vars

\* a final turn was accepted by iteration 2 while the turn of iteration 1 was
\* running: the cancellation is out and the new turn is queued, not returned
C21_Witness ==
  /\ TurnRunning(NextInteractionId(1))
  /\ iter[2].turnDetected
  /\ [type |-> "CANCEL_RESPONSE", interactionId |-> NextInteractionId(2)] \in clientOut
  /\ sessObj[sessions].ws = "OPEN"

(***************************************************************************)
(* Part VIII: the audio loop of the transcription node on one healthy      *)
(* provider connection, with chunks of two lengths, with and without local *)
(* speech, and with sends that throw.                                      *)
(***************************************************************************)
\* chunks of 50 ms and 100 ms at INPUT_SAMPLE_RATE
LoopChunkKinds ==
  [len : {INPUT_SAMPLE_RATE \div 10}, speech : BOOLEAN, sendOk : BOOLEAN] \cup
  {[len |-> INPUT_SAMPLE_RATE \div 20, speech |-> FALSE, sendOk |-> TRUE]}

LoopNext ==
  \/ \E kind \in LoopChunkKinds : PushChunk(kind)
  \/ EndStream
  \/ StartProcessReuse
  \/ StartProcessConnect
  \/ \E c \in Conns : ProviderOpen(c)
  \/ \E c \in Conns : TurnEvent(c, "hi", TRUE)
  \/ \E i \in Iterations : LoopStreamDone(i)
  \/ \E i \in Iterations : LoopDiscard(i)
  \/ \E i \in Iterations : LoopForward(i)
  \/ \E i \in Iterations : VadDone(i)

LoopSpec == Init /\ [][LoopNext]_vars

\* C22: when the processing of a chunk ends the endpointing latency is 0 if
\* local speech was detected in it and its previous value plus the chunk's
\* duration in ms otherwise; no other step changes it, so it only grows or
\* drops to 0
C22_EndpointingLatency ==
  [][\A i \in Iterations :
       LET p == iter[i]
           q == iter'[i] IN
       /\ IF p.pc = "vad" /\ q.pc # "vad"
            THEN q.endpointingLatency =
                   (IF p.chunkSpeech THEN 0
                    ELSE p.endpointingLatency + (p.chunkLen * 1000) \div INPUT_SAMPLE_RATE)
            ELSE q.endpointingLatency = p.endpointingLatency
       /\ q.endpointingLatency >= p.endpointingLatency \/ q.endpointingLatency = 0]_vars

\* an iteration processed a 50 ms and a 100 ms chunk without local speech
C22_Witness ==
  \E i \in Iterations :
    /\ iter[i].audioChunkCount = 2
    /\ iter[i].totalAudioSamples = INPUT_SAMPLE_RATE \div 20 + INPUT_SAMPLE_RATE \div 10
    /\ iter[i].endpointingLatency = 150

\* C24: a chunk whose send throws is counted in the chunk and sample totals,
\* goes on to the speech check and the endpointing latency, and the loop calls
\* next() again; process does not return on it and no error result exists
C24_SendFailureNotFatal ==
  /\ [][\A i \in Iterations, k \in 1..MaxChunks :
          (/\ fate[k] = "none"
           /\ fate'[k] = "sendFailed"
           /\ NextResolves(i))
          => /\ iter'[i].pc = "vad"
             /\ iter'[i].chunkId = k
             /\ iter'[i].audioChunkCount = iter[i].audioChunkCount + 1
             /\ iter'[i].totalAudioSamples =
                  iter[i].totalAudioSamples + Head(streamQueue).data.len
             /\ iter'[i].returned = iter[i].returned
             /\ sttResults' = sttResults]_vars
  /\ [][\A i \in Iterations :
          (/\ iter[i].pc = "vad"
           /\ iter'[i].pc # "vad"
           /\ fate[iter[i].chunkId] = "sendFailed")
          => /\ iter'[i].pc = "next"
             /\ iter'[i].endpointingLatency =
                  (IF iter[i].chunkSpeech THEN 0
                   ELSE iter[i].endpointingLatency +
                        (iter[i].chunkLen * 1000) \div INPUT_SAMPLE_RATE)]_vars
  /\ [](\A n \in 1..Len(sttResults) : ~sttResults[n].error_occurred)

\* the send of chunk 1 threw, chunk 2 was forwarded by the same iteration, and
\* the iteration completed with a turn
C24_Witness ==
  /\ fate[1] = "sendFailed"
  /\ fate[2] = "forwarded"
  /\ \E n \in 1..Len(sttResults) :
       /\ sttResults[n].interaction_complete
       /\ sttResults[n].audio_chunk_count = 2
       /\ sttResults[n].total_audio_samples = 2 * (INPUT_SAMPLE_RATE \div 10)
       /\ sttResults[n].endpointing_latency_ms = 200

(***************************************************************************)
(* Part IX: further properties of the transcription node's turn handler.   *)
(***************************************************************************)
\* process with its turn handler and audio loop on a provider connection that
\* stays open, for every kind of Turn message
HandlerNext ==
  \/ PushChunk([len |-> 1600, speech |-> FALSE, sendOk |-> TRUE])
  \/ EndStream
  \/ StartProcessReuse
  \/ StartProcessConnect
  \/ \E c \in Conns : ProviderOpen(c)
  \/ \E c \in Conns, t \in Transcripts, f \in BOOLEAN : TurnEvent(c, t, f)
  \/ \E i \in Iterations : LoopStreamDone(i)
  \/ \E i \in Iterations : LoopDiscard(i)
  \/ \E i \in Iterations : LoopForward(i)
  \/ \E i \in Iterations : VadDone(i)

HandlerSpec == Init /\ [][HandlerNext]_vars

\* the locals of process that its turn handler and its return depend on
TurnLocals(p) == <<p.transcriptText, p.turnDetected, p.shouldStopProcessing, p.returned, p.pc>>

\* C23: a result has interaction_complete exactly when the iteration's handler
\* accepted a final Turn with a non-empty transcript; a Turn with an empty
\* transcript changes nothing and sends nothing; a non-final Turn is relayed as
\* TEXT with final = false under the iteration's id and the iteration goes on
C23_CompleteIffFinalAccepted ==
  /\ [](\A n \in 1..Len(sttResults) :
          sttResults[n].interaction_complete
            <=> (iter[sttResults[n].iteration].turnDetected /\ sttResults[n].transcript # ""))
  /\ [](\A i \in Iterations :
          iter[i].turnDetected =>
            \E m \in ResultsOf(i) : sttResults[m].interaction_complete)
  /\ [][\A c \in Conns, f \in BOOLEAN :
          TurnEvent(c, "", f)
          => /\ clientOut' = {}
             /\ sttResults' = sttResults
             /\ \A i \in Iterations : TurnLocals(iter'[i]) = TurnLocals(iter[i])]_vars
  /\ [][\A c \in Conns, t \in Transcripts \ {""} :
          TurnEvent(c, t, FALSE)
          => /\ \A i \in Listening(c) :
                  [type |-> "TEXT", interactionId |-> NextInteractionId(i), final |-> FALSE]
                    \in clientOut'
             /\ sttResults' = sttResults
             /\ \A i \in Iterations : TurnLocals(iter'[i]) = TurnLocals(iter[i])]_vars
  /\ [][\A c \in Conns, t \in Transcripts \ {""} :
          TurnEvent(c, t, TRUE)
          => \A i \in Listening(c) :
               /\ iter'[i].turnDetected
               /\ iter'[i].transcriptText = t
               /\ \E n \in (1..Len(sttResults')) \ (1..Len(sttResults)) :
                    /\ sttResults'[n].iteration = i
                    /\ sttResults'[n].interaction_complete]_vars

\* iteration 1 completed with a turn, and a partial transcript of iteration 2
\* has just been relayed while iteration 2 goes on
C23_Witness ==
  /\ \E n \in ResultsOf(1) : sttResults[n].interaction_complete
  /\ [type |-> "TEXT", interactionId |-> NextInteractionId(2), final |-> FALSE] \in clientOut
  /\ ~iter[2].returned
  /\ ~iter[2].turnDetected

(***************************************************************************)
(* Part X: the provider connections of one session over the life of the    *)
(* transcription node: ensureConnection, idle teardown and destroy.        *)
(***************************************************************************)
\* AssemblyAISTTWebSocketNode.destroy: for every entry of this.sessions the timer
\* is cleared and a socket whose readyState is OPEN is closed; then sessions.clear()
Destroy ==
  /\ ~destroyed
  /\ destroyed' = TRUE
  /\ sessObj' = IF sessions = 0 THEN sessObj
                ELSE [sessObj EXCEPT
                        ![sessions].timer = -1,
                        ![sessions].ws = IF @ = "OPEN" THEN "CLOSED" ELSE @,
                        ![sessions].wsReady = IF sessObj[sessions].ws = "OPEN"
                                              THEN FALSE ELSE @]
  /\ sessions' = 0
  /\ clientOut' = {}
  /\ UNCHANGED <<now, objCount, streamQueue, streamEnded, nextPending, pushed, iter,
                 started, sttResults, forwarded, fate, idleCloses>>
  /\ UNCHANGED <<queueVars, asmVars, audioVars, textVars, idVars, handlerVars, slicerVars, notifierVars, admitVars, isolationVars>>

\* the graph is stopped with the node: process is not called after destroy
ConnectionNext ==
  \/ PushChunk([len |-> 1600, speech |-> FALSE, sendOk |-> TRUE])
  \/ EndStream
  \/ ~destroyed /\ StartProcessReuse
  \/ ~destroyed /\ StartProcessConnect
  \/ \E c \in Conns : ProviderOpen(c)
  \/ \E c \in Conns : ProviderBegin(c)
  \/ \E c \in Conns : ProviderClose(c)
  \/ \E c \in Conns : ProviderError(c)
  \/ \E c \in Conns : TurnEvent(c, "hi", TRUE)
  \/ \E i \in Iterations : LoopStreamDone(i)
  \/ \E i \in Iterations : LoopDiscard(i)
  \/ \E i \in Iterations : LoopForward(i)
  \/ \E i \in Iterations : VadDone(i)
  \/ Tick
  \/ \E c \in Conns : InactivityTimerFires(c)
  \/ Destroy

ConnectionSpec == Init /\ [][ConnectionNext]_vars

\* the provider sockets of the session that are open or still connecting
LiveConnections == {c \in Conns : sessObj[c].ws \in {"OPEN", "CONNECTING"}}

\* C25: the session never has two open or connecting provider connections, a
\* connection closed by the idle teardown is not open afterwards, and after
\* destroy the session has no open or connecting connection
C25_OneLiveConnection ==
  /\ Cardinality(LiveConnections) <= 1
  /\ \A e \in idleCloses : sessObj[e.conn].ws = "CLOSED"
  /\ destroyed => LiveConnections = {}

(***************************************************************************)
(* Part XI: the interactionId that process derives for each iteration.     *)
(* Identifiers are sequences of characters: a uuid is one letter, followed *)
(* by a digit for the uuid of a text message.                              *)
(***************************************************************************)
DigitChars == <<"0", "1", "2", "3", "4", "5", "6", "7", "8", "9">>

IsDigit(ch) == \E d \in 1..10 : DigitChars[d] = ch

DigitValue(ch) == (CHOOSE d \in 1..10 : DigitChars[d] = ch) - 1

\* String.indexOf: position of the first occurrence, 0 for the -1 of the code
IndexOf(str, ch) ==
  IF \E n \in 1..Len(str) : str[n] = ch
  THEN CHOOSE n \in 1..Len(str) : str[n] = ch /\ \A m \in 1..(n - 1) : str[m] # ch
  ELSE 0

\* /^\d+$/.test
AllDigits(str) == Len(str) > 0 /\ \A n \in 1..Len(str) : IsDigit(str[n])

\* parseInt(str, 10) of an all-digit string
RECURSIVE ParseInt(_)
ParseInt(str) ==
  IF str = <<>> THEN 0
  ELSE 10 * ParseInt(SubSeq(str, 1, Len(str) - 1)) + DigitValue(str[Len(str)])

\* the decimal digits a template literal writes for a non-negative integer
RECURSIVE FormatInt(_)
FormatInt(n) ==
  IF n < 10 THEN <<DigitChars[n + 1]>>
  ELSE FormatInt(n \div 10) \o <<DigitChars[(n % 10) + 1]>>

PreviousIterationFromMetadata(meta, currentId) == meta

\* previousIteration: metadata.iteration || 0, else parsed from the interactionId
PreviousIteration(meta, currentId) ==
  LET delimiterIndex == IndexOf(currentId, "#")
      iterationStr == SubSeq(currentId, delimiterIndex + 1, Len(currentId)) IN
  IF meta = 0 /\ delimiterIndex # 0 /\ AllDigits(iterationStr)
  THEN ParseInt(iterationStr)
  ELSE meta

\* baseId
BaseId(currentId) ==
  IF IndexOf(currentId, "#") # 0
  THEN SubSeq(currentId, 1, IndexOf(currentId, "#") - 1)
  ELSE currentId

\* nextInteractionId = `${baseId}#${iteration}`
ComputeNextInteractionId(meta, currentId) ==
  BaseId(currentId) \o <<"#">> \o FormatInt(PreviousIteration(meta, currentId) + 1)

\* the uuid createNewInteraction draws for the k-th text message
TextUuid(k) == <<"t">> \o FormatInt(k)

\* a call of process computes iteration and nextInteractionId; its result, normal
\* or error, carries the iteration back on the loop edge
IdProcess ==
  LET n == PreviousIteration(loopIteration, stateId) + 1 IN
  /\ executions > 0
  /\ Len(assigned) < MaxCalls
  /\ assigned' = Append(assigned,
                        [execution |-> executions, metadata |-> loopIteration,
                         currentId |-> stateId, iteration |-> n,
                         interactionId |-> ComputeNextInteractionId(loopIteration, stateId)])
  /\ loopIteration' = n
  /\ UNCHANGED <<stateId, executions, textIds>>
  /\ UNCHANGED notIdVars

\* TextInputNode of the audio graph writes the id of a turn that the current
\* execution detected into connection.state.interactionId
IdDispatch(k) ==
  /\ k \in 1..Len(assigned)
  /\ assigned[k].execution = executions
  /\ stateId # assigned[k].interactionId
  /\ stateId' = assigned[k].interactionId
  /\ UNCHANGED <<loopIteration, executions, textIds, assigned>>
  /\ UNCHANGED notIdVars

\* TextInputNode of the text graph writes the uuid of a text message
IdTextMessage ==
  /\ textIds < MaxTextIds
  /\ textIds' = textIds + 1
  /\ stateId' = TextUuid(textIds + 1)
  /\ UNCHANGED <<loopIteration, executions, assigned>>
  /\ UNCHANGED notIdVars

\* processAudioChunk starts a graph execution for a new audio session: the
\* first input of process comes from the audio input node and has no metadata
IdAudioSession ==
  /\ executions < MaxExecutions
  /\ executions' = executions + 1
  /\ loopIteration' = 0
  /\ UNCHANGED <<stateId, textIds, assigned>>
  /\ UNCHANGED notIdVars

IdNext ==
  \/ IdProcess
  \/ \E k \in 1..MaxCalls : IdDispatch(k)
  \/ IdTextMessage
  \/ IdAudioSession

IdSpec == Init /\ [][IdNext]_vars

\* C26: no two iterations of the session get the same interactionId, and with
\* the same base a later iteration has a larger number
C26_InteractionIdsUnique ==
  \A j, k \in 1..Len(assigned) :
    j < k =>
      /\ assigned[j].interactionId # assigned[k].interactionId
      /\ BaseId(assigned[j].interactionId) = BaseId(assigned[k].interactionId)
           => assigned[j].iteration < assigned[k].iteration

\* position of the last occurrence of ch in str, 0 if there is none
LastIndexOf(str, ch) ==
  IF \E n \in 1..Len(str) : str[n] = ch
  THEN CHOOSE n \in 1..Len(str) : str[n] = ch /\ \A m \in (n + 1)..Len(str) : str[m] # ch
  ELSE 0

\* the number written by an all-digit trailing #<n> of id, 0 if there is none
TrailingNumber(id) ==
  LET h == LastIndexOf(id, "#")
      tail == SubSeq(id, h + 1, Len(id)) IN
  IF h # 0 /\ AllDigits(tail) THEN ParseInt(tail) ELSE 0

\* id as far as it has no "#"
WithoutSuffix(id) == SubSeq(id, 1, IndexOf(id \o <<"#">>, "#") - 1)

\* C27: every call of process computes n as the looped-back iteration, or else
\* the trailing number of the session's interactionId, or else 0, plus one, and
\* the id <base>#<n>; within one execution n grows by one from call to call
C27_NextIdDerivation ==
  \A k \in 1..Len(assigned) :
    LET r == assigned[k]
        prev == IF r.metadata # 0 THEN r.metadata ELSE TrailingNumber(r.currentId) IN
    /\ r.iteration = prev + 1
    /\ r.interactionId = WithoutSuffix(r.currentId) \o <<"#">> \o FormatInt(r.iteration)
    /\ TrailingNumber(r.interactionId) = r.iteration
    /\ WithoutSuffix(r.interactionId) = WithoutSuffix(r.currentId)
    /\ (k > 1 /\ assigned[k - 1].execution = r.execution)
         => r.iteration = assigned[k - 1].iteration + 1

\* a second audio session started after the turn of iteration 2 was dispatched:
\* its first call parsed 2 from the session's interactionId, its second call
\* took 3 from the looped-back metadata
C27_Witness ==
  \E k \in 2..Len(assigned) :
    /\ assigned[k - 1].metadata = 0
    /\ assigned[k - 1].currentId = <<"s", "#", "2">>
    /\ assigned[k - 1].interactionId = <<"s", "#", "3">>
    /\ assigned[k].metadata = 3
    /\ assigned[k].interactionId = <<"s", "#", "4">>

-----------------------------------------------------------------------------
(***************************************************************************)
(* Part XI-b: the transcription loop after the end of the audio stream.    *)
(* The node's own steps are taken whenever they stay possible; what the    *)
(* provider does, and when, is up to the provider.                         *)
(***************************************************************************)
ExhaustNext ==
  \/ PushChunk([len |-> 1600, speech |-> FALSE, sendOk |-> TRUE])
  \/ EndStream
  \/ StartProcessReuse
  \/ StartProcessConnect
  \/ \E c \in Conns : ProviderOpen(c)
  \/ \E c \in Conns : ProviderClose(c)
  \/ \E c \in Conns : ProviderError(c)
  \/ \E c \in Conns : TurnEvent(c, "hi", TRUE)
  \/ \E i \in Iterations : LoopStreamDone(i)
  \/ \E i \in Iterations : LoopDiscard(i)
  \/ \E i \in Iterations : LoopForward(i)
  \/ \E i \in Iterations : VadDone(i)

ExhaustSpec == Init /\ [][ExhaustNext]_vars

\* the graph calls process when the loop edge holds, and a resolved next() or
\* detectSpeech resumes the audio loop
ExhaustFairSpec ==
  /\ ExhaustSpec
  /\ WF_vars(StartProcessReuse)
  /\ WF_vars(StartProcessConnect)
  /\ WF_vars(\E i \in Iterations : LoopStreamDone(i))
  /\ WF_vars(\E i \in Iterations : LoopDiscard(i))
  /\ WF_vars(\E i \in Iterations : LoopForward(i))
  /\ WF_vars(\E i \in Iterations : VadDone(i))

\* the calls of process or the provider connections of the model are used up
ExhaustBoundReached == started = MaxIter \/ objCount = MaxConns

\* C34: once the stream has been ended, process eventually returns a result
\* with stream_exhausted = true, whatever the provider connection does
C34_EndedStreamIsExhausted ==
  streamEnded ~> (\/ \E k \in 1..Len(sttResults) : sttResults[k].stream_exhausted
                  \/ ExhaustBoundReached)

-----------------------------------------------------------------------------
\* the connection promise that iteration i awaited in ensureConnection was rejected
ConnectionFailed(i) ==
  iter[i].sess # 0 /\ sessObj[iter[i].sess].promise = "rejected"

\* C39: an iteration whose provider connection could not be established returns
\* one result, with error_occurred = true, turn_detected = false,
\* interaction_complete = false and an empty transcript; it has made no call of
\* next() on the stream: it holds no pending read, has counted no chunk and has
\* not seen the end of the stream
C39_FailedConnectionResult ==
  \A i \in Iterations :
    ConnectionFailed(i) =>
      /\ iter[i].pc = "ended" /\ iter[i].returned
      /\ Cardinality(ResultsOf(i)) = 1
      /\ \A k \in ResultsOf(i) :
           /\ sttResults[k].error_occurred
           /\ ~sttResults[k].turn_detected
           /\ ~sttResults[k].interaction_complete
           /\ sttResults[k].transcript = ""
           /\ sttResults[k].audio_chunk_count = 0
           /\ sttResults[k].total_audio_samples = 0
           /\ ~sttResults[k].stream_exhausted
      /\ \A n \in 1..Len(nextPending) : nextPending[n] # i
      /\ iter[i].audioChunkCount = 0 /\ ~iter[i].isStreamExhausted

\* the second call of process failed to connect while a chunk was waiting in the
\* stream, after the first call had forwarded one
C39_Witness ==
  /\ started = 2
  /\ ConnectionFailed(2) /\ iter[2].returned
  /\ streamQueue # <<>>
  /\ \E k \in ResultsOf(1) : sttResults[k].audio_chunk_count = 1

(***************************************************************************)
(* Part XI-c: SpeechCompleteNotifierNode and the Custom handler of         *)
(* processSingleResult: from a result of the transcription node to the     *)
(* USER_SPEECH_COMPLETE event.                                             *)
(***************************************************************************)

\* the notifier is run for every result
NotifierEdgeAlways(metadata) == TRUE

\* edge assemblyAISTTNode -> speechCompleteNotifierNode: interaction_complete === true
NotifierEdge(metadata) == metadata.interaction_complete = TRUE

\* x || 0 for a number
OrZero(x) == IF x # 0 THEN x ELSE 0

\* SpeechCompleteNotifierNode.process: the SPEECH_COMPLETE event
SpeechCompleteEvent(metadata) ==
  [type |-> "SPEECH_COMPLETE",
   interactionId |-> metadata.interactionId,
   iteration |-> OrZero(metadata.iteration),
   totalSamples |-> OrZero(metadata.total_audio_samples),
   sampleRate |-> INPUT_SAMPLE_RATE,
   endpointingLatencyMs |-> metadata.endpointing_latency_ms]

\* Custom handler of processSingleResult for a SPEECH_COMPLETE event:
\* EventFactory.userSpeechComplete
UserSpeechComplete(customData) ==
  [type |-> "USER_SPEECH_COMPLETE",
   interactionId |-> customData.interactionId,
   totalSamples |-> customData.totalSamples,
   sampleRate |-> customData.sampleRate,
   endpointingLatencyMs |-> customData.endpointingLatencyMs,
   source |-> "VAD",
   iteration |-> customData.iteration]

\* the graph takes the next result of the transcription node: if the notifier
\* edge holds, the notifier makes its event, the event comes out of the graph
\* and the result loop of the message handler sends it to the client
SpeechCompleteNotify ==
  /\ notified < Len(sttResults)
  /\ notified' = notified + 1
  /\ speechEvents' =
       IF NotifierEdge(sttResults[notified + 1])
       THEN Append(speechEvents, UserSpeechComplete(SpeechCompleteEvent(sttResults[notified + 1])))
       ELSE speechEvents
  /\ UNCHANGED notNotifierVars

NotifierNext ==
  \/ \E speech \in BOOLEAN : PushChunk([len |-> 1600, speech |-> speech, sendOk |-> TRUE])
  \/ EndStream
  \/ StartProcessReuse
  \/ StartProcessConnect
  \/ \E c \in Conns : ProviderOpen(c)
  \/ \E c \in Conns : ProviderError(c)
  \/ \E c \in Conns : TurnEvent(c, "hi", TRUE)
  \/ \E i \in Iterations : LoopStreamDone(i)
  \/ \E i \in Iterations : LoopDiscard(i)
  \/ \E i \in Iterations : LoopForward(i)
  \/ \E i \in Iterations : VadDone(i)
  \/ SpeechCompleteNotify

NotifierSpec == Init /\ [][NotifierNext]_vars

\* the results among the first n that ended with a completed turn, in order
CompletedResults(n) ==
  SelectSeq(SubSeq(sttResults, 1, n), LAMBDA r : r.interaction_complete)

\* C35: the USER_SPEECH_COMPLETE events sent are, one for one and in order, the
\* results with interaction_complete = true that the graph has passed on, each
\* with the result's interactionId, endpointing latency and sample count; a
\* result without a completed turn sends none; sending the event leaves the
\* interaction queue and the session state as they are
C35_OneSpeechCompletePerTurn ==
  /\ [](/\ Len(speechEvents) = Len(CompletedResults(notified))
        /\ \A k \in 1..Len(speechEvents) :
             /\ speechEvents[k].type = "USER_SPEECH_COMPLETE"
             /\ speechEvents[k].interactionId = CompletedResults(notified)[k].interactionId
             /\ speechEvents[k].endpointingLatencyMs =
                  CompletedResults(notified)[k].endpointing_latency_ms
             /\ speechEvents[k].totalSamples =
                  CompletedResults(notified)[k].total_audio_samples)
  /\ [][notified' # notified
          => /\ UNCHANGED <<queueVars, idVars, sttVars>>
             /\ ~sttResults[notified'].interaction_complete => speechEvents' = speechEvents]_vars

\* a result without a turn and a result with a turn after some silence were both
\* passed on, and one event was sent, with a latency above 0
C35_Witness ==
  /\ notified = 2
  /\ Len(speechEvents) = 1
  /\ speechEvents[1].endpointingLatencyMs > 0
  /\ speechEvents[1].totalSamples > 0
  /\ \E k \in 1..2 : ~sttResults[k].interaction_complete

-----------------------------------------------------------------------------
(***************************************************************************)
(* Part XII: AudioHandler, the voice-activity segmenter with its pre-roll  *)
(* buffer.  A buffer of samples is a sequence of runs: [msg, from, len]    *)
(* stands for the samples from .. from+len-1 of audio message msg, in      *)
(* order; msg = 0 is silence written by initializePreRollWithSilence.      *)
(* Every call of processAudioChunk runs to its end before the next one.    *)
(***************************************************************************)

\* array.length
RECURSIVE Samples(_)
Samples(buf) == IF buf = <<>> THEN 0 ELSE Head(buf).len + Samples(Tail(buf))

\* array.splice(0, n): the first n elements go, or all of them when there are fewer
RECURSIVE Splice(_, _)
Splice(buf, n) ==
  IF n <= 0 \/ buf = <<>> THEN buf
  ELSE IF Head(buf).len <= n THEN Splice(Tail(buf), n - Head(buf).len)
  ELSE <<[msg |-> Head(buf).msg, from |-> Head(buf).from + n, len |-> Head(buf).len - n]>>
         \o Tail(buf)

\* the pre-roll after a silent frame while idle: splice(0, data.length), push(...data)
MaintainPreRoll(pre, data) == Splice(pre, Samples(data)) \o data

\* (audioChunk.data.length * 1000) / INPUT_SAMPLE_RATE
FrameDurationMs(data) == (Samples(data) * 1000) \div INPUT_SAMPLE_RATE

\* processAudioChunk(message, sessionId) for a message of n samples; voiced is
\* what detectVoiceActivity answers for the frame (vadResult !== -1)
ProcessAudioChunk(n, voiced) ==
  LET data == audioBuffer \o <<[msg |-> handled + 1, from |-> 0, len |-> n]>> IN
  /\ handled' = handled + 1
  /\ IF Samples(data) < FRAME_PER_BUFFER
     THEN /\ audioBuffer' = data
          /\ UNCHANGED <<preRollBuffer, speechBuffer, isCapturingSpeech, pauseDuration,
                         currentAudioInteractionRegistered, frameLog, idleSeen, onsets,
                         capturedSpeech>>
     ELSE
       /\ audioBuffer' = <<>>
       /\ frameLog' = Append(frameLog, [len |-> Samples(data), voiced |-> voiced])
       /\ IF isCapturingSpeech
          THEN LET buffer == speechBuffer \o data
                   speechDetected ==
                     Samples(buffer) > MIN_SPEECH_DURATION_SAMPLES + PRE_ROLL_MAX_SAMPLES
                   pause == pauseDuration + FrameDurationMs(data)
                   stops == ~voiced /\ pause > PAUSE_DURATION_THRESHOLD_MS IN
               /\ pauseDuration' = IF voiced THEN 0 ELSE pause
               /\ isCapturingSpeech' = ~stops
               /\ currentAudioInteractionRegistered' =
                    IF stops /\ speechDetected THEN FALSE
                    ELSE currentAudioInteractionRegistered \/ speechDetected
               /\ speechBuffer' = IF stops /\ speechDetected THEN <<>> ELSE buffer
               /\ capturedSpeech' = IF stops /\ speechDetected
                                      THEN Append(capturedSpeech, buffer)
                                      ELSE capturedSpeech
               /\ UNCHANGED <<preRollBuffer, idleSeen, onsets>>
          ELSE IF voiced
          THEN /\ isCapturingSpeech' = TRUE
               /\ speechBuffer' = speechBuffer \o preRollBuffer \o data
               /\ preRollBuffer' = InitializePreRollWithSilence
               /\ pauseDuration' = 0
               /\ idleSeen' = <<>>
               /\ onsets' = Append(onsets, [preRoll |-> preRollBuffer, idle |-> idleSeen,
                                             frame |-> data, before |-> speechBuffer,
                                             segment |-> speechBuffer'])
               /\ UNCHANGED <<currentAudioInteractionRegistered, capturedSpeech>>
          ELSE /\ preRollBuffer' = MaintainPreRoll(preRollBuffer, data)
               /\ idleSeen' = idleSeen \o data
               /\ UNCHANGED <<speechBuffer, isCapturingSpeech, pauseDuration,
                              currentAudioInteractionRegistered, onsets, capturedSpeech>>
  /\ UNCHANGED notHandlerVars

\* endAudioSession(sessionId)
EndAudioSession ==
  /\ pauseDuration' = 0
  /\ isCapturingSpeech' = FALSE
  /\ currentAudioInteractionRegistered' = FALSE
  /\ preRollBuffer' = InitializePreRollWithSilence
  /\ idleSeen' = <<>>
  /\ speechBuffer' = <<>>
  /\ capturedSpeech' = IF Samples(speechBuffer) > 0
                         THEN Append(capturedSpeech, speechBuffer)
                         ELSE capturedSpeech
  /\ UNCHANGED <<audioBuffer, handled, frameLog, onsets>>
  /\ UNCHANGED notHandlerVars

\* audio messages of any of the lengths, and the end of the audio session
PreRollNext ==
  \/ handled < MaxHandled /\ \E n \in MessageLengths, voiced \in BOOLEAN :
       ProcessAudioChunk(n, voiced)
  \/ handled > 0 /\ handled < MaxHandled /\ EndAudioSession

PreRollSpec == Init /\ [][PreRollNext]_vars

\* C28: the pre-roll buffer always holds PRE_ROLL_MAX_SAMPLES samples
C28_PreRollLengthFixed == Samples(preRollBuffer) = PRE_ROLL_MAX_SAMPLES

\* the last PRE_ROLL_MAX_SAMPLES samples of silence followed by the idle frames
MostRecentPreRoll(idle) ==
  Splice(Silence(PRE_ROLL_MAX_SAMPLES) \o idle, Samples(idle))

\* C29: at every speech onset the segment is the most recent pre-roll duration
\* of the samples seen while idle, in their order, with silence in front when
\* there were fewer, and then the onset frame
C29_SegmentStartsWithPreRoll ==
  \A k \in 1..Len(onsets) :
    onsets[k].segment = MostRecentPreRoll(onsets[k].idle) \o onsets[k].frame

\* audio messages of 100 ms each, and the end of the audio session
ScenarioNext ==
  \/ handled < MaxScenario /\ \E voiced \in BOOLEAN :
       ProcessAudioChunk(INPUT_SAMPLE_RATE \div 10, voiced)
  \/ handled > 0 /\ handled < MaxScenario /\ EndAudioSession

ScenarioSpec == Init /\ [][ScenarioNext]_vars

\* n frames of 100 ms, all with or all without voice
Frames100(n, voiced) == [k \in 1..n |-> [len |-> INPUT_SAMPLE_RATE \div 10, voiced |-> voiced]]

\* five silent frames of 100 ms and then three voiced ones, in one audio session
FiveSilentThreeVoiced ==
  /\ frameLog = Frames100(5, FALSE) \o Frames100(3, TRUE)
  /\ Len(onsets) = 1
  /\ capturedSpeech = <<>>
  /\ isCapturingSpeech

\* C30: a speech onset starts the segment with the pre-roll buffer, once, then the
\* onset frame, and leaves the pre-roll buffer as silence; while capturing the
\* segment only grows by the frames; after five silent and three voiced frames
\* of 100 ms the segment is 500 ms of pre-roll and 300 ms of speech, 800 ms
C30_PreRollPrependedOnce ==
  /\ [](\A k \in 1..Len(onsets) :
          /\ onsets[k].before = <<>>
          /\ onsets[k].segment = onsets[k].preRoll \o onsets[k].frame)
  /\ [][(~isCapturingSpeech /\ isCapturingSpeech')
          => /\ preRollBuffer' = Silence(PRE_ROLL_MAX_SAMPLES)
             /\ Len(onsets') = Len(onsets) + 1
             /\ speechBuffer' = onsets'[Len(onsets')].segment]_vars
  /\ [][(isCapturingSpeech /\ speechBuffer' # speechBuffer /\ speechBuffer' # <<>>)
          => /\ speechBuffer' =
                  speechBuffer \o <<[msg |-> handled', from |-> 0,
                                     len |-> INPUT_SAMPLE_RATE \div 10]>>
             /\ onsets' = onsets]_vars
  /\ [](FiveSilentThreeVoiced
          => /\ FrameDurationMs(onsets[1].preRoll) = PRE_ROLL_MS
             /\ FrameDurationMs(speechBuffer) - FrameDurationMs(onsets[1].preRoll) = 300
             /\ FrameDurationMs(speechBuffer) = 800)

\* the segment after five silent and three voiced messages of 100 ms: the five
\* silent messages as pre-roll, then the three voiced ones
C30_Witness ==
  /\ FiveSilentThreeVoiced
  /\ speechBuffer = [k \in 1..8 |-> [msg |-> k, from |-> 0, len |-> INPUT_SAMPLE_RATE \div 10]]
  /\ onsets[1].preRoll = SubSeq(speechBuffer, 1, 5)
  /\ preRollBuffer = Silence(PRE_ROLL_MAX_SAMPLES)

-----------------------------------------------------------------------------
(***************************************************************************)
(* Part XIII: AudioStreamSlicerNode, the node that cuts the chunk stream   *)
(* into turns with the VAD alone.  A chunk is [id, len, speech]: its       *)
(* position in the stream, its number of samples and what detectSpeech     *)
(* answers for it; accumulatedAudio is kept as the accumulated chunks.     *)
(***************************************************************************)

\* endpointingLatency >= this.pauseDurationMs
PauseReached(latency) == latency >= DefaultPauseDurationMs

\* a chunk is accumulated as soon as speech was detected, silent or not
AccumulatesOnceSpeaking(isSpeech, speechDetected) == isSpeech \/ speechDetected

\* if (isSpeech) accumulatedAudio.push(...): only a chunk scored as speech
Accumulates(isSpeech, speechDetected) == isSpeech

\* (result.data.length / result.sampleRate) * 1000
SlicerChunkDurationMs(len) == (len * 1000) \div INPUT_SAMPLE_RATE

\* accumulatedAudio.length
RECURSIVE AccumulatedLength(_)
AccumulatedLength(acc) ==
  IF acc = <<>> THEN 0 ELSE Head(acc).len + AccumulatedLength(Tail(acc))

\* the metadata of the DataStreamWithMetadata that process returns
SlicerResult(l) ==
  [total_samples |-> AccumulatedLength(l.accumulatedAudio),
   speech_detected |-> l.speechDetected,
   endpointing_latency_ms |-> l.endpointingLatency,
   stream_exhausted |-> l.isStreamExhausted,
   interaction_complete |-> l.speechDetected /\ AccumulatedLength(l.accumulatedAudio) > 0,
   completed_audio |-> IF l.speechDetected /\ AccumulatedLength(l.accumulatedAudio) > 0
                       THEN l.accumulatedAudio ELSE <<>>,
   seen |-> l.seen]

\* process is called: for the first time, or again by the loop after a result
\* that did not exhaust the stream
SlicerProcess ==
  /\ ~unloaded
  /\ \/ slicer.pc = "idle"
     \/ slicer.pc = "returned" /\ ~slicer.isStreamExhausted
  /\ slicer' = [pc |-> "reading"] @@ SlicerLocals
  /\ UNCHANGED <<sliced, chunksRead>>
  /\ UNCHANGED notSlicerVars

\* one round of the while loop, from audioStream.next() to the end of the body,
\* and the return of process when the loop ends with this round; done says
\* whether next() reported the end of the stream (then without samples)
SlicerRound(done, len, speech) ==
  /\ slicer.pc = "reading"
  /\ chunksRead < MaxSliced
  /\ LET chunk == [id |-> chunksRead + 1, len |-> IF done THEN 0 ELSE len,
                   speech |-> speech, done |-> done]
         latency == IF speech THEN 0
                    ELSE IF slicer.speechDetected
                         THEN slicer.endpointingLatency + SlicerChunkDurationMs(chunk.len)
                         ELSE slicer.endpointingLatency
         breaks == ~speech /\ slicer.speechDetected /\ PauseReached(latency)
         locals == [slicer EXCEPT
                      !.isStreamExhausted = done,
                      !.seen = Append(@, chunk),
                      !.accumulatedAudio = IF Accumulates(speech, slicer.speechDetected)
                                              /\ chunk.len > 0
                                           THEN Append(@, chunk) ELSE @,
                      !.speechDetected = @ \/ speech,
                      !.endpointingLatency = latency] IN
     /\ chunksRead' = chunksRead + 1
     /\ IF done \/ breaks
        THEN /\ slicer' = [locals EXCEPT !.pc = "returned"]
             /\ sliced' = Append(sliced, SlicerResult(locals))
        ELSE /\ slicer' = locals
             /\ UNCHANGED sliced
  /\ UNCHANGED notSlicerVars

SlicerNext ==
  \/ SlicerProcess
  \/ \E len \in SlicerChunkLengths, speech \in BOOLEAN : SlicerRound(FALSE, len, speech)
  \/ \E speech \in BOOLEAN : SlicerRound(TRUE, 0, speech)

SlicerSpec == Init /\ [][SlicerNext]_vars

\* the chunks of a sequence that were scored as speech and carry samples
SpeechChunks(chunks) == SelectSeq(chunks, LAMBDA c : c.speech /\ c.len > 0)

\* C31: what an iteration accumulates, and what it returns as completed audio,
\* is the chunks it read that were scored as speech, in the order read; a chunk
\* scored as silence is never part of it
C31_OnlySpeechAccumulated ==
  /\ slicer.accumulatedAudio = SpeechChunks(slicer.seen)
  /\ \A k \in 1..Len(sliced) :
       /\ sliced[k].completed_audio = SpeechChunks(sliced[k].seen)
       /\ sliced[k].total_samples = AccumulatedLength(SpeechChunks(sliced[k].seen))

\* an iteration returned audio after reading silence, speech, silence, speech
\* and then the end of the stream: the two speech chunks only
C31_Witness ==
  \E k \in 1..Len(sliced) :
    /\ Len(sliced[k].seen) = 5
    /\ ~sliced[k].seen[1].speech /\ sliced[k].seen[2].speech
    /\ ~sliced[k].seen[3].speech /\ sliced[k].seen[4].speech
    /\ sliced[k].completed_audio = <<sliced[k].seen[2], sliced[k].seen[4]>>

\* the silence, in ms, read after the last chunk scored as speech
RECURSIVE TrailingSilenceMs(_)
TrailingSilenceMs(chunks) ==
  IF chunks = <<>> \/ chunks[Len(chunks)].speech THEN 0
  ELSE SlicerChunkDurationMs(chunks[Len(chunks)].len)
         + TrailingSilenceMs(SubSeq(chunks, 1, Len(chunks) - 1))

\* C32: an iteration returns only with the stream exhausted or with more silence
\* since its last speech chunk than the pause threshold; it does not return on
\* silence when no chunk was speech; it reports interaction_complete only if a
\* chunk was scored as speech
C32_EndsOnExhaustionOrPause ==
  \A k \in 1..Len(sliced) :
    LET r == sliced[k] IN
    /\ r.stream_exhausted
         \/ /\ \E n \in 1..Len(r.seen) : r.seen[n].speech
            /\ TrailingSilenceMs(r.seen) > DefaultPauseDurationMs
    /\ r.interaction_complete => \E n \in 1..Len(r.seen) : r.seen[n].speech

(***************************************************************************)
(* Part XIV: two sessions on one server.  InworldApp.connections, the       *)
(* sessions map of the transcription node and the datastore of each audio  *)
(* graph execution, with every handler taking the sessionId it is given.   *)
(***************************************************************************)
\* a node that keeps the provider connection of every session under one key
SessionKeyShared(sessionId) == "A"

\* the key under which this.sessions and this.connections hold a session
SessionKey(sessionId) == sessionId

SessionTurnIds == {<<AudioBase, n>> : n \in 1..MaxSessionTurns}

\* InworldApp.load: this.connections[sessionId] = { state: {...}, ws: null, ... }
SessionLoad(s) ==
  /\ appConnections' = [appConnections EXCEPT ![SessionKey(s)] =
                          [NoConnection EXCEPT !.loaded = TRUE,
                                               !.interactionId = SystemMessageId]]
  /\ UNCHANGED <<nodeSessions, stores>>
  /\ UNCHANGED notIsolationVars

\* webSocket.on('connection'): the socket is kept if the session has none yet
SessionSocketOpen(s) ==
  /\ appConnections[SessionKey(s)].loaded
  /\ ~appConnections[SessionKey(s)].ws
  /\ appConnections' = [appConnections EXCEPT ![SessionKey(s)].ws = TRUE]
  /\ UNCHANGED <<nodeSessions, stores>>
  /\ UNCHANGED notIsolationVars

\* an audio message: processAudioChunk creates the AudioStreamManager and starts
\* the graph execution with a datastore of its own if the connection has none,
\* then pushes the chunk
SessionAudioChunk(s) ==
  LET connection == appConnections[SessionKey(s)] IN
  /\ connection.loaded /\ connection.ws
  /\ connection.audioStreamManager = "none"
  /\ ~connection.currentAudioGraphExecution
  /\ appConnections' = [appConnections EXCEPT
                          ![SessionKey(s)].audioStreamManager = "open",
                          ![SessionKey(s)].currentAudioGraphExecution = TRUE]
  /\ stores' = [stores EXCEPT ![s] = <<>>]
  /\ UNCHANGED nodeSessions
  /\ UNCHANGED notIsolationVars

\* an audioSessionEnd message: connection.audioStreamManager.end()
SessionAudioEnd(s) ==
  /\ appConnections[SessionKey(s)].audioStreamManager = "open"
  /\ appConnections' = [appConnections EXCEPT
                          ![SessionKey(s)].audioStreamManager = "ended"]
  /\ UNCHANGED <<nodeSessions, stores>>
  /\ UNCHANGED notIsolationVars

\* the finally block of executeGraphWithAudioStream, once the stream has ended
SessionExecutionEnds(s) ==
  LET connection == appConnections[SessionKey(s)] IN
  /\ connection.currentAudioGraphExecution
  /\ connection.audioStreamManager # "open"
  /\ appConnections' = [appConnections EXCEPT
                          ![SessionKey(s)].audioStreamManager = "none",
                          ![SessionKey(s)].currentAudioGraphExecution = FALSE]
  /\ stores' = [stores EXCEPT ![s] = <<>>]
  /\ UNCHANGED nodeSessions
  /\ UNCHANGED notIsolationVars

\* ensureConnection of an iteration of the session: an entry that is missing or
\* not ready is replaced by a new one (initializeWebSocket), which opens;
\* shouldStopProcessing is reset
SessionEnsureConnection(s) ==
  /\ appConnections[s].currentAudioGraphExecution
  /\ nodeSessions' = [nodeSessions EXCEPT ![SessionKey(s)] =
                        [present |-> TRUE, wsReady |-> TRUE,
                         shouldStopProcessing |-> FALSE]]
  /\ nodeSessions' # nodeSessions
  /\ UNCHANGED <<appConnections, stores>>
  /\ UNCHANGED notIsolationVars

\* the 'close' or 'error' event of the session's provider socket
SessionProviderClose(s) ==
  /\ nodeSessions[SessionKey(s)].wsReady
  /\ nodeSessions' = [nodeSessions EXCEPT ![SessionKey(s)].wsReady = FALSE]
  /\ UNCHANGED <<appConnections, stores>>
  /\ UNCHANGED notIsolationVars

\* closeConnectionDueToInactivity(sessionId), run by the session's timer
SessionInactivity(s) ==
  LET session == nodeSessions[SessionKey(s)] IN
  /\ session.present
  /\ nodeSessions' = [nodeSessions EXCEPT ![SessionKey(s)] =
                        IF session.wsReady THEN NoEntry
                        ELSE [session EXCEPT !.shouldStopProcessing = TRUE]]
  /\ nodeSessions' # nodeSessions
  /\ UNCHANGED <<appConnections, stores>>
  /\ UNCHANGED notIsolationVars

\* InteractionQueueNode.process in the session's execution, for a detected turn;
\* the turns of an execution are detected in the order of their iterations
SessionAdmit(s, id) ==
  /\ appConnections[s].currentAudioGraphExecution
  /\ \A earlier \in SessionTurnIds :
       earlier[2] < id[2] => DataStoreHas(stores[s], <<QUEUED_PREFIX, earlier>>)
  /\ stores' = [stores EXCEPT ![s] = AdmitStore(stores[s], [interactionId |-> id, text |-> "a"])]
  /\ stores' # stores
  /\ UNCHANGED <<appConnections, nodeSessions>>
  /\ UNCHANGED notIsolationVars

\* TextInputNode.process in the session's execution for the dispatched turn
SessionTextInput(s, id) ==
  /\ appConnections[s].currentAudioGraphExecution
  /\ ~appConnections[SessionKey(s)].unloaded
  /\ DataStoreHas(stores[s], <<RUNNING_PREFIX, id>>)
  /\ ~DataStoreHas(stores[s], <<COMPLETED_PREFIX, id>>)
  /\ appConnections[SessionKey(s)].interactionId # id
  /\ appConnections' = [appConnections EXCEPT ![SessionKey(s)].interactionId = id]
  /\ UNCHANGED <<nodeSessions, stores>>
  /\ UNCHANGED notIsolationVars

\* StateUpdateNode.process in the session's execution: the completion key of
\* connection.state.interactionId
SessionStateUpdate(s) ==
  LET id == appConnections[SessionKey(s)].interactionId IN
  /\ appConnections[s].currentAudioGraphExecution
  /\ ~appConnections[SessionKey(s)].unloaded
  /\ DataStoreHas(stores[s], <<RUNNING_PREFIX, id>>)
  /\ ~DataStoreHas(stores[s], <<COMPLETED_PREFIX, id>>)
  /\ stores' = [stores EXCEPT ![s] = DataStoreAdd(stores[s], <<COMPLETED_PREFIX, id>>, "")]
  /\ UNCHANGED <<appConnections, nodeSessions>>
  /\ UNCHANGED notIsolationVars

\* ws.on('close') of the client socket: the audio stream is ended and dropped,
\* the connection is marked unloaded
SessionSocketClose(s) ==
  LET connection == appConnections[SessionKey(s)] IN
  /\ connection.loaded /\ connection.ws
  /\ ~connection.unloaded
  /\ appConnections' = [appConnections EXCEPT
                          ![SessionKey(s)].audioStreamManager = "none",
                          ![SessionKey(s)].unloaded = TRUE]
  /\ UNCHANGED <<nodeSessions, stores>>
  /\ UNCHANGED notIsolationVars

\* InworldApp.unload
SessionUnload(s) ==
  /\ appConnections[SessionKey(s)].loaded
  /\ ~appConnections[SessionKey(s)].unloaded
  /\ appConnections' = [appConnections EXCEPT ![SessionKey(s)].unloaded = TRUE]
  /\ UNCHANGED <<nodeSessions, stores>>
  /\ UNCHANGED notIsolationVars

\* a step taken for session s
SessionStep(s) ==
  \/ SessionLoad(s)
  \/ SessionSocketOpen(s)
  \/ SessionAudioChunk(s)
  \/ SessionAudioEnd(s)
  \/ SessionExecutionEnds(s)
  \/ SessionEnsureConnection(s)
  \/ SessionProviderClose(s)
  \/ SessionInactivity(s)
  \/ \E id \in SessionTurnIds : SessionAdmit(s, id)
  \/ \E id \in SessionTurnIds : SessionTextInput(s, id)
  \/ SessionStateUpdate(s)
  \/ SessionSocketClose(s)
  \/ SessionUnload(s)

IsolationNext ==
  \/ \E s \in SessionIds : SessionLoad(s)
  \/ \E s \in SessionIds : SessionSocketOpen(s)
  \/ \E s \in SessionIds : SessionAudioChunk(s)
  \/ \E s \in SessionIds : SessionAudioEnd(s)
  \/ \E s \in SessionIds : SessionExecutionEnds(s)
  \/ \E s \in SessionIds : SessionEnsureConnection(s)
  \/ \E s \in SessionIds : SessionProviderClose(s)
  \/ \E s \in SessionIds : SessionInactivity(s)
  \/ \E s \in SessionIds : \E id \in SessionTurnIds : SessionAdmit(s, id)
  \/ \E s \in SessionIds : \E id \in SessionTurnIds : SessionTextInput(s, id)
  \/ \E s \in SessionIds : SessionStateUpdate(s)
  \/ \E s \in SessionIds : SessionSocketClose(s)
  \/ \E s \in SessionIds : SessionUnload(s)

IsolationSpec == Init /\ [][IsolationNext]_vars

\* what a session owns: its connection state with the AudioStreamManager, its
\* entry of the node's sessions map, and the queue entries of its execution
SessionView(s) == <<appConnections[s], nodeSessions[s], stores[s]>>

\* C37: a step taken for one session (load, socket open or close, audio, end of
\* audio, admit, text input, completion, reconnect, inactivity teardown, unload)
\* leaves the connection state, the provider-connection entry, the
\* AudioStreamManager and the queue entries of every other session as they are:
\* whenever what a session owns changes, the step was not one of another session
C37_OtherSessionUntouched ==
  [][\A b \in SessionIds : SessionView(b)' # SessionView(b) =>
       \A a \in SessionIds \ {b} : ~SessionStep(a)]_vars

\* both sessions run an execution with a ready provider connection; A has
\* completed its first turn while B has only queued its first
C37_Witness ==
  /\ appConnections["A"].currentAudioGraphExecution
  /\ appConnections["B"].currentAudioGraphExecution
  /\ nodeSessions["A"].wsReady /\ nodeSessions["B"].wsReady
  /\ DataStoreHas(stores["A"], <<COMPLETED_PREFIX, <<AudioBase, 1>>>>)
  /\ DataStoreHas(stores["B"], <<RUNNING_PREFIX, <<AudioBase, 1>>>>)
  /\ ~DataStoreHas(stores["B"], <<COMPLETED_PREFIX, <<AudioBase, 1>>>>)

=============================================================================
